---- MODULE Spec2Model ----
(***************************************************************************)
(* Order / payment consistency core of the EKOamulet shop bot              *)
(* (src/bot.py, src/sheets_handler.py).                                     *)
(*                                                                         *)
(* Tasks are coroutines of one asyncio event loop.  A task gives up the    *)
(* loop only at an `await`; every action below is the code that runs from  *)
(* one `await` to the next.  The ledger operations are split at their      *)
(* awaits (lock acquisition, _get_stock_no_lock, _set_stock_no_lock), so    *)
(* stock_lock is what serialises them.                                      *)
(*                                                                         *)
(* Environment: the Google Sheets backend and the payment gateway may fail *)
(* at any call; the local file pending_payments.json is written by         *)
(* json.dump of strings and integers and is taken to be writable.          *)
(***************************************************************************)
EXTENDS Integers, Sequences, FiniteSets, TLC

(* ------------------------------ bounds --------------------------------- *)
\* initial stock quantities explored: 0..MaxInitStock
MaxInitStock == 2
\* webhook requests one handler task serves, one after the other
MaxDeliveries == 1
\* calls of the retry wrappers in one run
MaxCalls == 3
\* order flows one chat takes as far as confirm_order
MaxFlows == 2
\* restarts of the process in one run
MaxRestarts == 1

(* ------------------------- program constants --------------------------- *)
MAX_RETRIES == 3
CRITICAL_STOCK_THRESHOLD == 3
LOW_STOCK_THRESHOLD == 5
\* STOCK_DATA = {'quantity': 10}
DefaultQuantity == 10
\* Python's None as a stock result (Optional[int])
NoneVal == -1
\* aiohttp response codes
HTTP_OK == 200
HTTP_ERROR == 500

(* ------------------------------ tasks ---------------------------------- *)
Buyers == {"b1", "b2"}
Hooks == {"w1", "w2"}
\* the operator's chat, for /stock and /setstock
Admins == {"a1"}
Tasks == Buyers \cup Hooks \cup Admins
NoHolder == "free"

\* payment.id returned by Payment.create: one per checkout, never reused
PaymentIds == {"p1", "p2"}
payment_id(b) == IF b = "b1" THEN "p1" ELSE "p2"
buyer_of(p) == IF p = "p1" THEN "b1" ELSE "b2"

\* product ids that reach confirm_order
Products == {"amulet", "cert_digital", "cert_special_box"}
KidCertificates == {"kid", "cert_digital", "cert_box"}
SpecialCertificates == {"special", "cert_special_digital", "cert_special_box"}

\* order statuses written to the store
STATUS_WAITING == "Ozhidanie oplaty"
STATUS_PAID == "Uspeshno oplacheno"
STATUS_CANCELED == "Otmeneno"

\* webhook payload fields
Events == {"payment.succeeded", "payment.canceled", "payment.waiting_for_capture"}
Statuses == {"succeeded", "canceled", "pending"}

AdminKinds == {"unsaved_retry", "unsaved_order", "new_order",
               "paid", "status_not_updated", "canceled", "status_retry",
               "waitlist_joined"}
UserKinds == {"amulet_details", "certificate_thanks", "special_thanks", "canceled"}

VARIABLES
    SHEETS_AVAILABLE,   \* SHEETS_AVAILABLE and sheets: fixed at start-up
    sheetStock,         \* column D of the 'amulet' row of sheet "Ostatki"
    STOCK_DATA,         \* STOCK_DATA['quantity']
    stock_lock,         \* holder of asyncio.Lock stock_lock, or NoHolder
    PENDING_PAYMENTS,   \* payment id -> order data
    pendingFile,        \* content of pending_payments.json
    sheetOrders,        \* sheet "Zakazy": payment id -> status
    ORDERS_DATA,        \* local order store: payment id -> status
    adminMsgs,          \* send_admin_notification calls, by kind and payment id
    userMsgs,           \* buyer notifications, by kind and payment id
    pc,                 \* position of every task
    current,            \* local `current` / `stock` of a ledger caller
    product_id,         \* context.user_data['product_id'] of a buyer
    attempt,            \* loop variable of add_order_to_sheets_with_retry
    outcome,            \* last message shown to the buyer by the checkout
    payment,            \* result of create_yookassa_payment in confirm_order
    steps,              \* steps of confirm_order a buyer has started, in order
    hook,               \* local variables of a webhook handler
    deliveries,         \* webhook requests a handler task has received so far
    seen,               \* quantity a buyer's successful decrement read
    delta,              \* change a task's own writes made to the quantity
    ledger,             \* history of the ledger: decrements, increments
    retry,              \* the retry wrapper that is running: its loop and result
    sheetWaitlist,      \* rows of sheet "Ozhidanie": <<phone, user id>>
    WAITLIST_DATA,      \* WAITLIST_DATA: phone -> user id
    conversation,       \* state of the order ConversationHandler of one chat
    user_data,          \* context.user_data of that chat
    text,               \* update.message.text of the last message handled
    reply,              \* the last reply_text of the form
    order_read,         \* fio, address, phone, email confirm_order last read
    restarts,           \* times the process has been started again
    worksheet,          \* rows of sheet "Ostatki" as get_all_values gives them
    returned,           \* the last call of GoogleSheetsHandler and its result
    broadcast           \* local variables of cmd_notify_waitlist and its position

\* set when the process starts
startVars == <<SHEETS_AVAILABLE, restarts>>
mainVars == <<startVars, sheetStock, STOCK_DATA, stock_lock, PENDING_PAYMENTS,
          pendingFile, sheetOrders, ORDERS_DATA, adminMsgs, userMsgs, pc, current,
          product_id, attempt, outcome, payment, steps, hook, deliveries, seen,
          delta, ledger>>
retryVars == <<retry, sheetWaitlist, WAITLIST_DATA>>
formVars == <<conversation, user_data, text, reply, order_read>>
operatorVars == <<worksheet, returned, broadcast>>
vars == <<mainVars, retryVars, formVars, operatorVars>>

stockVars == <<sheetStock, STOCK_DATA>>
storeVars == <<sheetOrders, ORDERS_DATA>>
pendingVars == <<PENDING_PAYMENTS, pendingFile>>
msgVars == <<adminMsgs, userMsgs>>
buyerVars == <<product_id, attempt, outcome, payment, steps, seen>>
hookVars == <<hook, deliveries>>

(* --------------------------- dictionaries ------------------------------ *)
Put(d, k, v) == [x \in DOMAIN d \cup {k} |-> IF x = k THEN v ELSE d[x]]
Del(d, k) == [x \in DOMAIN d \ {k} |-> d[x]]
EmptyDict == [x \in {} |-> 0]
Bump(m, kind, p) == [m EXCEPT ![<<kind, p>>] = @ + 1]

(* ------------------------ the stock quantity --------------------------- *)
\* the quantity a successful read returns
Quantity == IF SHEETS_AVAILABLE THEN sheetStock ELSE STOCK_DATA

\* GoogleSheetsHandler.get_stock: get_products_raw swallows a read error and
\* returns [], so products.get('amulet') is None and the result is 0
sheets_get_stock(readOk) == IF readOk THEN sheetStock ELSE 0

_get_stock_no_lock(readOk) ==
    IF SHEETS_AVAILABLE THEN sheets_get_stock(readOk) ELSE STOCK_DATA

\* GoogleSheetsHandler.set_stock: True when the cell was written, False when
\* the row was not found or the write raised
sheets_set_stock(writeOk) == writeOk

\* result of _set_stock_no_lock
SetSucceeds(writeOk) == IF SHEETS_AVAILABLE THEN sheets_set_stock(writeOk) ELSE TRUE

\* effect of _set_stock_no_lock(q) on the durable quantity and on the cache
SetStockNoLock(q, writeOk) ==
    IF SHEETS_AVAILABLE
    THEN /\ sheetStock' = IF sheets_set_stock(writeOk) THEN q ELSE sheetStock
         /\ STOCK_DATA' = IF sheets_set_stock(writeOk) THEN q ELSE STOCK_DATA
    ELSE /\ STOCK_DATA' = q
         /\ UNCHANGED sheetStock

\* asyncio.Lock.acquire returns only when the lock is not held
CanAcquireAlways == TRUE
CanAcquire == stock_lock = NoHolder

AcquirePcs == {"get_acquire", "dec_acquire", "inc_acquire", "set_acquire"}
AfterAcquire(p) ==
    CASE p = "get_acquire" -> "get_read"
      [] p = "dec_acquire" -> "dec_read"
      [] p = "inc_acquire" -> "inc_read"
      [] p = "set_acquire" -> "set_write"

\* `async with stock_lock:` of get_stock, decrease_stock_safe and
\* increase_stock_safe
LockAcquire(t) ==
    /\ pc[t] \in AcquirePcs
    /\ CanAcquire
    /\ stock_lock' = t
    /\ pc' = [pc EXCEPT ![t] = AfterAcquire(pc[t])]
    /\ UNCHANGED <<operatorVars, retryVars, formVars, startVars, stockVars, pendingVars, storeVars, msgVars,
                   current, buyerVars, hookVars, delta, ledger>>

\* leaving the `async with` block releases the lock
HeldOn == "held"
Released == NoHolder

(* ----------------------------- messages -------------------------------- *)
\* the stock alert confirm_order sends after a decrement to new_stock
StockAlert(new_stock) ==
    IF new_stock <= CRITICAL_STOCK_THRESHOLD THEN "critical_stock"
    ELSE IF new_stock <= LOW_STOCK_THRESHOLD THEN "low_stock"
    ELSE "no_alert"

\* the buyer confirmation process_successful_payment sends for a product
ThanksAlwaysDetails(prod) == "amulet_details"
ThanksKind(prod) ==
    IF prod \in KidCertificates THEN "certificate_thanks"
    ELSE IF prod \in SpecialCertificates THEN "special_thanks"
    ELSE "amulet_details"

(* ---------------------------- order store ------------------------------ *)
\* keyword arguments of the call sheets.add_order(...) in
\* add_order_to_sheets_with_retry
AddOrderKeywords ==
    {"payment_id", "user_id", "fio", "address", "phone", "product", "price",
     "status", "email"}
\* parameters of GoogleSheetsHandler.add_order
AddOrderParameters ==
    {"payment_id", "user_id", "fio", "address", "phone", "product", "price",
     "status", "ref_code"}
\* a call with a keyword the function does not take raises TypeError before
\* the body runs; the body returns True, or False when the sheet write raised
sheets_add_order(bodyOk) ==
    IF AddOrderKeywords \subseteq AddOrderParameters
    THEN (IF bodyOk THEN "True" ELSE "False")
    ELSE "TypeError"

\* names the local-fallback branch of add_order_to_sheets_with_retry reads
LocalOrderNames == {"user_id", "fio", "address", "phone", "payment_id"}
\* names bound in add_order_to_sheets_with_retry: its parameters and locals
AddOrderScope ==
    {"payment_id", "product_name", "fio", "phone", "address", "price", "status",
     "email", "attempt", "user_id_placeholder", "success", "delay", "e"}
\* reading a name that is bound nowhere raises NameError
local_add_order ==
    IF LocalOrderNames \subseteq AddOrderScope THEN "True" ELSE "NameError"

\* `for attempt in range(MAX_RETRIES)`: is there a pass after pass number n
LoopContinuesOnceMore(n) == n + 1 < MAX_RETRIES + 1
LoopContinues(n) == n + 1 < MAX_RETRIES

\* one pass of the loop body of add_order_to_sheets_with_retry
add_order_attempt(bodyOk) ==
    IF SHEETS_AVAILABLE THEN sheets_add_order(bodyOk) ELSE local_add_order

\* GoogleSheetsHandler.update_order_status: True when worksheet.find found the
\* row and the cell was written; False when not found or the call raised
sheets_update_order_status(p, backendOk) == backendOk /\ p \in DOMAIN sheetOrders

\* result of update_order_status_with_retry
update_order_status_with_retry(p, backendOk) ==
    IF SHEETS_AVAILABLE
    THEN sheets_update_order_status(p, backendOk)
    ELSE p \in DOMAIN ORDERS_DATA

\* effect of update_order_status_with_retry on the store
UpdateOrderStatus(p, new_status, backendOk) ==
    IF update_order_status_with_retry(p, backendOk)
    THEN IF SHEETS_AVAILABLE
         THEN /\ sheetOrders' = [sheetOrders EXCEPT ![p] = new_status]
              /\ UNCHANGED ORDERS_DATA
         ELSE /\ ORDERS_DATA' = [ORDERS_DATA EXCEPT ![p] = new_status]
              /\ UNCHANGED sheetOrders
    ELSE UNCHANGED storeVars

(* ------------------------------- Init ---------------------------------- *)
NoRetry == [wrapper |-> "none", key |-> "none", status |-> "none", user |-> "none",
            attempt |-> 0, results |-> <<>>, result |-> "none", alerts |-> 0,
            calls |-> 0]
Unset == <<>>
NoData == [phone |-> Unset, fio |-> Unset, address |-> Unset, product_id |-> "none",
           gift_name |-> Unset, email |-> Unset, flow_type |-> "none"]
\* the buyer whose chat the session variables belong to
FormChat == "b1"
NoOrder == [fio |-> Unset, address |-> Unset, phone |-> Unset, email |-> Unset]
\* confirm_order: `fio = user_data.get('fio') or user_data.get('gift_name')`
\* and the three reads after it
SessionOrder ==
    [fio |-> IF user_data.fio # Unset THEN user_data.fio ELSE user_data.gift_name,
     address |-> user_data.address,
     phone |-> user_data.phone,
     email |-> user_data.email]
NoHook == [branch |-> "none", id |-> "none", api |-> "none", product |-> "none",
           resp |-> 0]

\* no method of GoogleSheetsHandler has been called yet
NoCall == [op |-> "none", quantity |-> 0, ok |-> FALSE, stock |-> 0]

\* cmd_notify_waitlist is not running
NoBroadcast == [at |-> "idle", waitlist |-> <<>>, alias |-> FALSE, size |-> 0,
                item |-> <<>>, attempted |-> {}, notified |-> 0]

\* the bot after start-up with no pending payments on file.  The quantity is
\* what the sheet holds, or in local mode what STOCK_DATA holds once the
\* operator has set it (/setstock)
Init ==
    /\ SHEETS_AVAILABLE \in BOOLEAN
    /\ \E q \in 0..MaxInitStock :
          IF SHEETS_AVAILABLE
          THEN sheetStock = q /\ STOCK_DATA = DefaultQuantity
          ELSE sheetStock = 0 /\ STOCK_DATA = q
    /\ stock_lock = NoHolder
    /\ PENDING_PAYMENTS = EmptyDict
    /\ pendingFile = EmptyDict
    /\ sheetOrders = EmptyDict
    /\ ORDERS_DATA = EmptyDict
    /\ adminMsgs = [x \in (AdminKinds \cup {"critical_stock", "low_stock"}) \X PaymentIds |-> 0]
    /\ userMsgs = [x \in UserKinds \X PaymentIds |-> 0]
    /\ pc = [t \in Tasks |-> "idle"]
    /\ current = [t \in Tasks |-> 0]
    /\ product_id = [b \in Buyers |-> "none"]
    /\ attempt = [b \in Buyers |-> 0]
    /\ outcome = [b \in Buyers |-> "none"]
    /\ payment = [b \in Buyers |-> "none"]
    /\ steps = [b \in Buyers |-> <<>>]
    /\ hook = [w \in Hooks |-> NoHook]
    /\ deliveries = [w \in Hooks |-> 0]
    /\ seen = [b \in Buyers |-> NoneVal]
    /\ delta = [t \in Tasks |-> 0]
    /\ ledger = [initial |-> Quantity, dec |-> 0, inc |-> 0]
    /\ retry = NoRetry
    /\ sheetWaitlist = <<>>
    /\ WAITLIST_DATA = EmptyDict
    /\ conversation = "none"
    /\ user_data = NoData
    /\ text = <<>>
    /\ reply = "none"
    /\ order_read = NoOrder
    /\ restarts = 0
    /\ worksheet = <<>>
    /\ returned = NoCall
    /\ broadcast = NoBroadcast

(* --------------------------- buyer's flow ------------------------------ *)
\* button_buy_product -> start_order_flow(product_id='amulet'): `await get_stock()`
ButtonBuyProduct(b) ==
    /\ pc[b] = "idle"
    /\ product_id' = [product_id EXCEPT ![b] = "amulet"]
    /\ pc' = [pc EXCEPT ![b] = "get_acquire"]
    /\ UNCHANGED <<operatorVars, retryVars, formVars, startVars, stockVars, stock_lock, pendingVars, storeVars,
                   msgVars, current, attempt, outcome, payment, steps, seen, hookVars,
                   delta, ledger>>

\* start_order_flow after get_stock returned: the stock check of the amulet;
\* the answers are then collected up to ASKING_CONFIRMATION
StartOrderFlow(b) ==
    /\ pc[b] = "get_read"
    /\ \E readOk \in BOOLEAN :
         LET stock == _get_stock_no_lock(readOk) IN
         pc' = [pc EXCEPT ![b] = IF stock <= 0 THEN "ASKING_PHONE_WAITLIST"
                                    ELSE "ASKING_CONFIRMATION"]
    /\ stock_lock' = Released
    /\ UNCHANGED <<operatorVars, retryVars, formVars, startVars, stockVars, pendingVars, storeVars, msgVars,
                   current, buyerVars, hookVars, delta, ledger>>

\* start_gift_flow ... choose_cert_type: a certificate product is chosen and
\* the flow reaches ASKING_CONFIRMATION without reading the stock
StartGiftFlow(b, p) ==
    /\ pc[b] = "idle"
    /\ p \in Products \ {"amulet"}
    /\ product_id' = [product_id EXCEPT ![b] = p]
    /\ pc' = [pc EXCEPT ![b] = "ASKING_CONFIRMATION"]
    /\ UNCHANGED <<operatorVars, retryVars, formVars, startVars, stockVars, stock_lock, pendingVars, storeVars,
                   msgVars, current, attempt, outcome, payment, steps, seen, hookVars,
                   delta, ledger>>

\* context.user_data.clear()
SessionKept(data) == data
SessionCleared(data) == NoData

\* cancel_order
CancelOrder(b) ==
    /\ pc[b] = "ASKING_CONFIRMATION"
    /\ outcome' = [outcome EXCEPT ![b] = "canceled"]
    /\ pc' = [pc EXCEPT ![b] = "END"]
    /\ user_data' = IF b = FormChat THEN SessionCleared(user_data) ELSE user_data
    /\ reply' = IF b = FormChat THEN "order_canceled" ELSE reply
    /\ UNCHANGED <<conversation, text, order_read>>
    /\ UNCHANGED <<operatorVars, retryVars, startVars, stockVars, stock_lock, pendingVars, storeVars,
                   msgVars, current, product_id, attempt, payment, steps, seen,
                   hookVars, delta, ledger>>

\* the order data confirm_order stores under the payment id
OrderData(b) ==
    [user_id |-> b, product_id |-> product_id[b], status |-> "pending"]

\* the keyword arguments add_order_to_sheets_with_retry gives sheets.add_order
\* for a buyer's order.  User ids are written as strings: "0" is the id 0,
\* which is no buyer's id
user_id_placeholder == "0"
AddOrderCall(b) ==
    [payment_id |-> payment_id(b), user_id |-> user_id_placeholder, fio |-> order_read.fio,
     address |-> order_read.address, phone |-> order_read.phone,
     product |-> product_id[b], price |-> product_id[b],
     status |-> STATUS_WAITING, email |-> order_read.email]

\* `if not payment_id or not confirmation_url:` of confirm_order;
\* create_yookassa_payment returns (id, url) or (None, None)
PaymentCreationFailedNever(created) == FALSE
PaymentCreationFailed(created) == ~created

\* `if product_id == 'amulet':` of confirm_order: the product that uses stock
TracksStock(prod) == prod = "amulet"

\* confirm_order up to `await decrease_stock_safe()` (amulet) or up to
\* `await add_order_to_sheets_with_retry(...)` (certificates)
ConfirmOrder(b) ==
    /\ pc[b] = "ASKING_CONFIRMATION"
    /\ \E created \in BOOLEAN :
         /\ payment' = [payment EXCEPT ![b] = IF created THEN "created" ELSE "failed"]
         /\ IF PaymentCreationFailed(created)
            THEN /\ outcome' = [outcome EXCEPT ![b] = "payment_error"]
                 /\ pc' = [pc EXCEPT ![b] = "END"]
                 /\ steps' = [steps EXCEPT ![b] = Append(@, "createPayment")]
                 /\ UNCHANGED pendingVars
            ELSE /\ PENDING_PAYMENTS' = Put(PENDING_PAYMENTS, payment_id(b), OrderData(b))
                 /\ pendingFile' = PENDING_PAYMENTS'
                 /\ steps' = [steps EXCEPT ![b] = @ \o <<"createPayment", "pending">>]
                 /\ pc' = [pc EXCEPT ![b] = IF TracksStock(product_id[b])
                                            THEN "dec_acquire" ELSE "add_order"]
                 /\ UNCHANGED outcome
    /\ order_read' = IF b = FormChat THEN SessionOrder ELSE order_read
    /\ UNCHANGED <<conversation, user_data, text, reply>>
    /\ UNCHANGED <<operatorVars, retryVars, startVars, stockVars, stock_lock, storeVars, msgVars,
                   current, product_id, attempt, seen, hookVars, delta, ledger>>

\* `del PENDING_PAYMENTS[payment_id]` of the out-of-stock branch
PendingKept(P, p) == P
PendingAfterOutOfStock(P, p) == Del(P, p)

\* `if new_stock is None:` of confirm_order
DecrementFailedNever(new_stock) == FALSE
DecrementFailed(new_stock) == new_stock = NoneVal

\* confirm_order after decrease_stock_safe returned new_stock, up to the
\* next await
AfterDecrease(b, new_stock) ==
    IF ~DecrementFailed(new_stock)
    THEN /\ adminMsgs' = IF new_stock # NoneVal /\ StockAlert(new_stock) # "no_alert"
                         THEN Bump(adminMsgs, StockAlert(new_stock), payment_id(b))
                         ELSE adminMsgs
         /\ pc' = [pc EXCEPT ![b] = "add_order"]
         /\ UNCHANGED <<pendingVars, outcome>>
    ELSE IF payment_id(b) \in DOMAIN PENDING_PAYMENTS
    THEN /\ PENDING_PAYMENTS' = PendingAfterOutOfStock(PENDING_PAYMENTS, payment_id(b))
         /\ pendingFile' = PENDING_PAYMENTS'
         /\ outcome' = [outcome EXCEPT ![b] = "out_of_stock"]
         /\ pc' = [pc EXCEPT ![b] = "END"]
         /\ UNCHANGED adminMsgs
    ELSE \* KeyError, caught by `except Exception` of confirm_order
         /\ outcome' = [outcome EXCEPT ![b] = "order_error"]
         /\ pc' = [pc EXCEPT ![b] = "END"]
         /\ UNCHANGED <<pendingVars, adminMsgs>>

\* `if current <= 0:` of decrease_stock_safe
IsEmptyNever(c) == FALSE
IsEmpty(c) == c <= 0

\* decrease_stock_safe: `current = await _get_stock_no_lock()` and the check
DecreaseRead(b) ==
    /\ pc[b] = "dec_read"
    /\ \E readOk \in BOOLEAN :
         LET c == _get_stock_no_lock(readOk) IN
         /\ steps' = [steps EXCEPT ![b] = Append(@, "decrement")]
         /\ IF IsEmpty(c)
            THEN /\ stock_lock' = Released
                 /\ UNCHANGED current
                 /\ AfterDecrease(b, NoneVal)
            ELSE /\ pc' = [pc EXCEPT ![b] = "dec_write"]
                 /\ current' = [current EXCEPT ![b] = c]
                 /\ UNCHANGED <<stock_lock, pendingVars, adminMsgs, outcome>>
    /\ UNCHANGED <<operatorVars, retryVars, formVars, startVars, stockVars, storeVars, userMsgs, product_id,
                   attempt, payment, seen, hookVars, delta, ledger>>

\* decrease_stock_safe: `success = await _set_stock_no_lock(current - 1)`
DecreaseWrite(b) ==
    /\ pc[b] = "dec_write"
    /\ \E writeOk \in BOOLEAN :
         LET new_stock == current[b] - 1
             success == SetSucceeds(writeOk) IN
         /\ SetStockNoLock(new_stock, writeOk)
         /\ delta' = [delta EXCEPT ![b] = IF success THEN @ + (new_stock - Quantity) ELSE @]
         /\ ledger' = [ledger EXCEPT !.dec = IF success THEN @ + 1 ELSE @]
         /\ seen' = [seen EXCEPT ![b] = IF success THEN current[b] ELSE @]
         /\ AfterDecrease(b, IF success THEN new_stock ELSE NoneVal)
    /\ stock_lock' = Released
    /\ current' = [current EXCEPT ![b] = 0]
    /\ UNCHANGED <<operatorVars, retryVars, formVars, startVars, storeVars, userMsgs, product_id,
                   attempt, payment, steps, hookVars>>

\* the `if not success:` branch of confirm_order for a product without stock
\* and the tail of that branch after increase_stock_safe for the amulet
SaveFailed(b, msgs) ==
    /\ adminMsgs' = Bump(msgs, "unsaved_order", payment_id(b))
    /\ outcome' = [outcome EXCEPT ![b] = "save_failed"]
    /\ pc' = [pc EXCEPT ![b] = "END"]

\* add_order_to_sheets_with_retry returned False
AddOrderFailed(b, msgs) ==
    IF TracksStock(product_id[b])
    THEN /\ adminMsgs' = msgs
         /\ pc' = [pc EXCEPT ![b] = "inc_acquire"]
         /\ UNCHANGED outcome
    ELSE SaveFailed(b, msgs)

\* one attempt of add_order_to_sheets_with_retry and what confirm_order does
\* with the result, up to the next await
AddOrderAttempt(b) ==
    /\ pc[b] = "add_order"
    /\ \E bodyOk \in BOOLEAN :
         LET r == add_order_attempt(bodyOk)
             started == IF attempt[b] = 0 THEN Append(steps[b], "addOrder") ELSE steps[b] IN
         /\ steps' = [steps EXCEPT ![b] = IF r = "True" THEN Append(started, "link")
                                          ELSE started]
         /\ CASE r = "True" ->
                   /\ IF SHEETS_AVAILABLE
                      THEN /\ sheetOrders' = Put(sheetOrders, payment_id(b), STATUS_WAITING)
                           /\ UNCHANGED ORDERS_DATA
                      ELSE /\ ORDERS_DATA' = Put(ORDERS_DATA, payment_id(b), STATUS_WAITING)
                           /\ UNCHANGED sheetOrders
                   /\ adminMsgs' = Bump(adminMsgs, "new_order", payment_id(b))
                   /\ outcome' = [outcome EXCEPT ![b] = "payment_link"]
                   /\ pc' = [pc EXCEPT ![b] = "END"]
                   /\ UNCHANGED attempt
              [] r = "False" ->
                   /\ UNCHANGED storeVars
                   /\ IF LoopContinues(attempt[b])
                      THEN /\ attempt' = [attempt EXCEPT ![b] = @ + 1]
                           /\ UNCHANGED <<adminMsgs, outcome, pc>>
                      ELSE /\ AddOrderFailed(b, adminMsgs)
                           /\ UNCHANGED attempt
              [] r = "TypeError" ->
                   /\ UNCHANGED storeVars
                   /\ IF attempt[b] < MAX_RETRIES - 1
                      THEN /\ attempt' = [attempt EXCEPT ![b] = @ + 1]
                           /\ UNCHANGED <<adminMsgs, outcome, pc>>
                      ELSE /\ AddOrderFailed(b, Bump(adminMsgs, "unsaved_retry", payment_id(b)))
                           /\ UNCHANGED attempt
              [] r = "NameError" ->
                   \* leaves add_order_to_sheets_with_retry; caught by
                   \* `except Exception` of confirm_order
                   /\ outcome' = [outcome EXCEPT ![b] = "order_error"]
                   /\ pc' = [pc EXCEPT ![b] = "END"]
                   /\ UNCHANGED <<storeVars, adminMsgs, attempt>>
    /\ UNCHANGED <<operatorVars, retryVars, formVars, startVars, stockVars, stock_lock, pendingVars, userMsgs,
                   current, product_id, payment, seen, hookVars, delta, ledger>>

(* --------------------- increase_stock_safe(1) -------------------------- *)
\* increase_stock_safe: `current = await _get_stock_no_lock()`
IncreaseRead(t) ==
    /\ pc[t] = "inc_read"
    /\ \E readOk \in BOOLEAN :
         current' = [current EXCEPT ![t] = _get_stock_no_lock(readOk)]
    /\ pc' = [pc EXCEPT ![t] = "inc_write"]
    /\ UNCHANGED <<operatorVars, retryVars, formVars, startVars, stockVars, stock_lock, pendingVars, storeVars,
                   msgVars, buyerVars, hookVars, delta, ledger>>

\* increase_stock_safe: `success = await _set_stock_no_lock(current + count)`;
\* then the caller goes on: confirm_order to its alert, the webhook handler
\* to `await update_order_status_with_retry(payment_id, "Otmeneno")`
IncreaseWrite(t) ==
    /\ pc[t] = "inc_write"
    /\ \E writeOk \in BOOLEAN :
         LET new_stock == current[t] + 1
             success == SetSucceeds(writeOk) IN
         /\ SetStockNoLock(new_stock, writeOk)
         /\ delta' = [delta EXCEPT ![t] = IF success THEN @ + (new_stock - Quantity) ELSE @]
         /\ ledger' = [ledger EXCEPT !.inc = IF success THEN @ + 1 ELSE @]
    /\ stock_lock' = Released
    /\ IF t \in Buyers
       THEN SaveFailed(t, adminMsgs)
       ELSE /\ pc' = [pc EXCEPT ![t] = "update_canceled"]
            /\ UNCHANGED <<adminMsgs, outcome>>
    /\ current' = [current EXCEPT ![t] = 0]
    /\ UNCHANGED <<operatorVars, retryVars, formVars, startVars, pendingVars, storeVars, userMsgs,
                   product_id, attempt, payment, steps, seen, hookVars>>

(* -------------------------- webhook handler ---------------------------- *)
\* `if event == 'payment.succeeded' and status == 'succeeded':`
ReportsSuccess(ev, st) == ev = "payment.succeeded" /\ st = "succeeded"
\* `elif event == 'payment.canceled' or status == 'canceled':`
ReportsCancel(ev, st) ==
    ~ReportsSuccess(ev, st) /\ (ev = "payment.canceled" \/ st = "canceled")

\* results of Payment.find_one(payment_id): the status, or an exception
ApiResults == Statuses \cup {"error"}

\* `if payment.status != 'succeeded':` of handle_yookassa_webhook
VerifiedAlways(api) == TRUE
Verified(api) == api = "succeeded"

\* `except Exception as e:` around Payment.find_one: the call itself failed
ApiFailedNever(api) == FALSE
ApiFailed(api) == api = "error"

\* `if payment_id not in PENDING_PAYMENTS:` of process_successful_payment
KnownAlways(p) == TRUE
Known(p) == p \in DOMAIN PENDING_PAYMENTS

Finished(w, h, code) ==
    /\ hook' = [hook EXCEPT ![w] = [h EXCEPT !.resp = code, !.product = "none"]]
    /\ pc' = [pc EXCEPT ![w] = "idle"]

\* handle_yookassa_webhook from the request up to its first await on the
\* order: the API check, `payment_id in PENDING_PAYMENTS`
WebhookReceive(w) ==
    /\ pc[w] = "idle"
    /\ deliveries[w] < MaxDeliveries
    /\ deliveries' = [deliveries EXCEPT ![w] = @ + 1]
    /\ delta' = [delta EXCEPT ![w] = 0]
    /\ \E ev \in Events, st \in Statuses, p \in PaymentIds, res \in ApiResults :
         LET api == IF ReportsSuccess(ev, st) THEN res ELSE "none"
             known == p \in DOMAIN PENDING_PAYMENTS
             h == [branch |-> IF ReportsSuccess(ev, st) THEN "success"
                              ELSE IF ReportsCancel(ev, st) THEN "cancel" ELSE "other",
                   id |-> p, api |-> api,
                   product |-> IF known THEN PENDING_PAYMENTS[p].product_id ELSE "none",
                   resp |-> 0] IN
         /\ (~ReportsSuccess(ev, st)) => res = "succeeded"
         /\ IF ReportsSuccess(ev, st)
            THEN IF ApiFailed(api) THEN Finished(w, h, HTTP_ERROR)
                 ELSE IF ~Verified(api) THEN Finished(w, h, HTTP_OK)
                 ELSE IF ~Known(p) THEN Finished(w, h, HTTP_OK)
                 ELSE /\ hook' = [hook EXCEPT ![w] = h]
                      /\ pc' = [pc EXCEPT ![w] = "update_paid"]
            ELSE IF ReportsCancel(ev, st) /\ known
                 THEN /\ hook' = [hook EXCEPT ![w] = h]
                      /\ pc' = [pc EXCEPT ![w] = "inc_acquire"]
                 ELSE Finished(w, h, HTTP_OK)
    /\ UNCHANGED <<operatorVars, retryVars, formVars, startVars, stockVars, stock_lock, pendingVars, storeVars,
                   msgVars, current, buyerVars, ledger>>

\* the `else:` branch of process_successful_payment: the critical alert
StatusNotUpdatedSilent(msgs, p) == msgs
StatusNotUpdated(msgs, p) == Bump(msgs, "status_not_updated", p)

\* process_successful_payment: `await update_order_status_with_retry(...)`
\* and the `else:` branch when it failed
UpdatePaid(w) ==
    /\ pc[w] = "update_paid"
    /\ \E backendOk \in BOOLEAN :
         /\ UpdateOrderStatus(hook[w].id, STATUS_PAID, backendOk)
         /\ IF update_order_status_with_retry(hook[w].id, backendOk)
            THEN /\ pc' = [pc EXCEPT ![w] = "notify_paid"]
                 /\ UNCHANGED <<adminMsgs, hook>>
            ELSE /\ adminMsgs' = StatusNotUpdated(adminMsgs, hook[w].id)
                 /\ Finished(w, hook[w], HTTP_ERROR)
    /\ UNCHANGED <<operatorVars, retryVars, formVars, startVars, stockVars, stock_lock, pendingVars, userMsgs,
                   current, buyerVars, deliveries, delta, ledger>>

\* `if payment_id in PENDING_PAYMENTS: del PENDING_PAYMENTS[payment_id]`
PendingAfterPaidKept(P, p) == P
PendingAfterPaidEmptied(P, p) == EmptyDict
PendingAfterPaid(P, p) == IF p \in DOMAIN P THEN Del(P, p) ELSE P

\* process_successful_payment after the status was updated: the buyer's
\* confirmation, the operator's notification, removal from PENDING_PAYMENTS
NotifyPaid(w) ==
    /\ pc[w] = "notify_paid"
    /\ userMsgs' = Bump(userMsgs, ThanksKind(hook[w].product), hook[w].id)
    /\ adminMsgs' = Bump(adminMsgs, "paid", hook[w].id)
    /\ PENDING_PAYMENTS' = PendingAfterPaid(PENDING_PAYMENTS, hook[w].id)
    /\ pendingFile' = IF hook[w].id \in DOMAIN PENDING_PAYMENTS
                      THEN PENDING_PAYMENTS' ELSE pendingFile
    /\ Finished(w, hook[w], HTTP_OK)
    /\ UNCHANGED <<operatorVars, retryVars, formVars, startVars, stockVars, stock_lock, storeVars, current,
                   buyerVars, deliveries, delta, ledger>>

\* cancel branch: `await update_order_status_with_retry(payment_id, "Otmeneno")`
UpdateCanceled(w) ==
    /\ pc[w] = "update_canceled"
    /\ \E backendOk \in BOOLEAN :
         UpdateOrderStatus(hook[w].id, STATUS_CANCELED, backendOk)
    /\ pc' = [pc EXCEPT ![w] = "notify_canceled"]
    /\ UNCHANGED <<operatorVars, retryVars, formVars, startVars, stockVars, stock_lock, pendingVars, msgVars,
                   current, buyerVars, hookVars, delta, ledger>>

\* cancel branch: both notifications, then `del PENDING_PAYMENTS[payment_id]`
\* (KeyError when the entry is gone: `except Exception` answers 500)
NotifyCanceled(w) ==
    /\ pc[w] = "notify_canceled"
    /\ adminMsgs' = Bump(adminMsgs, "canceled", hook[w].id)
    /\ userMsgs' = Bump(userMsgs, "canceled", hook[w].id)
    /\ IF hook[w].id \in DOMAIN PENDING_PAYMENTS
       THEN /\ PENDING_PAYMENTS' = Del(PENDING_PAYMENTS, hook[w].id)
            /\ pendingFile' = PENDING_PAYMENTS'
            /\ Finished(w, hook[w], HTTP_OK)
       ELSE /\ UNCHANGED pendingVars
            /\ Finished(w, hook[w], HTTP_ERROR)
    /\ UNCHANGED <<operatorVars, retryVars, formVars, startVars, stockVars, stock_lock, storeVars, current,
                   buyerVars, deliveries, delta, ledger>>

(* ------------------------------ operator ------------------------------- *)
\* the operator follows the alert "add the order to the table by hand"
OperatorAddsOrder(p) ==
    /\ SHEETS_AVAILABLE
    /\ adminMsgs[<<"unsaved_retry", p>>] + adminMsgs[<<"unsaved_order", p>>] > 0
    /\ p \notin DOMAIN sheetOrders
    /\ sheetOrders' = Put(sheetOrders, p, STATUS_WAITING)
    /\ UNCHANGED <<operatorVars, retryVars, formVars, startVars, stockVars, stock_lock, pendingVars, ORDERS_DATA,
                   msgVars, pc, current, buyerVars, hookVars, delta, ledger>>

(* ------------------------ order form: validation ----------------------- *)
\* A message text is a tuple of characters.  A character outside ASCII is
\* written by name: "ru_a" .. "ru_ya" and "RU_A" .. "RU_YA" are the Cyrillic
\* letters, "ru_yo" and "RU_YO" the letter yo, "u0665" is ARABIC-INDIC DIGIT
\* FIVE.
Range(s) == {s[i] : i \in DOMAIN s}
CyrillicLowerSeq == <<
    "ru_a", "ru_b", "ru_v", "ru_g", "ru_d", "ru_e", "ru_zh", "ru_z", "ru_i",
    "ru_j", "ru_k", "ru_l", "ru_m", "ru_n", "ru_o", "ru_p", "ru_r", "ru_s",
    "ru_t", "ru_u", "ru_f", "ru_h", "ru_c", "ru_ch", "ru_sh", "ru_sch",
    "ru_hard", "ru_y", "ru_soft", "ru_eh", "ru_yu", "ru_ya", "ru_yo" >>
CyrillicUpperSeq == <<
    "RU_A", "RU_B", "RU_V", "RU_G", "RU_D", "RU_E", "RU_ZH", "RU_Z", "RU_I",
    "RU_J", "RU_K", "RU_L", "RU_M", "RU_N", "RU_O", "RU_P", "RU_R", "RU_S",
    "RU_T", "RU_U", "RU_F", "RU_H", "RU_C", "RU_CH", "RU_SH", "RU_SCH",
    "RU_HARD", "RU_Y", "RU_SOFT", "RU_EH", "RU_YU", "RU_YA", "RU_YO" >>
LatinLowerSeq == <<
    "a", "b", "c", "d", "e", "f", "g", "h", "i", "j", "k", "l", "m", "n",
    "o", "p", "q", "r", "s", "t", "u", "v", "w", "x", "y", "z" >>
LatinUpperSeq == <<
    "A", "B", "C", "D", "E", "F", "G", "H", "I", "J", "K", "L", "M", "N",
    "O", "P", "Q", "R", "S", "T", "U", "V", "W", "X", "Y", "Z" >>
UpperSeq == CyrillicUpperSeq \o LatinUpperSeq
LowerSeq == CyrillicLowerSeq \o LatinLowerSeq

AsciiDigits == {"0", "1", "2", "3", "4", "5", "6", "7", "8", "9"}
\* `\d` of a str pattern matches every Unicode decimal digit
Digits == AsciiDigits \cup {"u0665"}
\* `\s`, and the characters str.strip() removes
Whitespace == {" ", "\t"}
\* the class [а-яА-ЯёЁ\s\-] of validate_fio
FioChars == Range(CyrillicLowerSeq) \cup Range(CyrillicUpperSeq) \cup Whitespace \cup {"-"}

RECURSIVE lstrip(_)
lstrip(s) == IF s # <<>> /\ Head(s) \in Whitespace THEN lstrip(Tail(s)) ELSE s
RECURSIVE rstrip(_)
rstrip(s) ==
    IF s # <<>> /\ s[Len(s)] \in Whitespace
    THEN rstrip(SubSeq(s, 1, Len(s) - 1))
    ELSE s
\* str.strip()
strip(s) == rstrip(lstrip(s))

\* str.lower()
lower_char(c) ==
    IF c \in Range(UpperSeq)
    THEN LowerSeq[CHOOSE i \in DOMAIN UpperSeq : UpperSeq[i] = c]
    ELSE c
lower(s) == [i \in DOMAIN s |-> lower_char(s[i])]

\* `keyword in address_lower`
Contains(s, k) ==
    \E i \in 0..(Len(s) - Len(k)) : SubSeq(s, i + 1, i + Len(k)) = k

\* re.match(r'^[а-яА-ЯёЁ\s\-]{3,100}$', fio.strip())
validate_fio(fio) ==
    LET s == strip(fio) IN
    /\ Len(s) >= 3
    /\ Len(s) <= 100
    /\ \A i \in DOMAIN s : s[i] \in FioChars

\* re.match(r'^(\+7|8)\d{10}$', phone.strip())
MatchesDigits(s, from) ==
    /\ Len(s) = from + 9
    /\ \A i \in from..Len(s) : s[i] \in Digits
validate_phone(phone) ==
    LET s == strip(phone) IN
    \/ Len(s) >= 2 /\ s[1] = "+" /\ s[2] = "7" /\ MatchesDigits(s, 3)
    \/ Len(s) >= 1 /\ s[1] = "8" /\ MatchesDigits(s, 2)

\* 5 <= len(address.strip()) <= 500
validate_address(address) ==
    LET s == strip(address) IN Len(s) >= 5 /\ Len(s) <= 500

\* load_russian_keywords: the list the function itself falls back to
load_russian_keywords ==
    { <<"ru_r", "ru_o", "ru_s", "ru_s", "ru_i", "ru_ya">>,
      <<"r", "u", "s", "s", "i", "a">>,
      <<"ru_m", "ru_o", "ru_s", "ru_k", "ru_v", "ru_a">>,
      <<"ru_s", "ru_p", "ru_b">> }
\* a gate that lets every address through
AnyAddressRussian(address) == TRUE
is_russian_address(address) ==
    \E keyword \in load_russian_keywords : Contains(lower(address), keyword)

\* `if not validate_...(...)`: the handler rejects the answer
RejectedNever(valid) == FALSE
Rejected(valid) == ~valid

\* c * n
Repeat(c, n) == [i \in 1..n |-> c]

\* message texts a buyer sends to the form
PhoneTexts ==
    { <<"+", "7", "9", "0", "0", "1", "2", "3", "4", "5", "6", "7">>,
      <<"8", "9", "0", "0", "1", "2", "3", "4", "5", "6", "7">>,
      <<" ", "+", "7", "9", "0", "0", "1", "2", "3", "4", "5", "6", "7", " ">>,
      <<"+", "7", "9", "0", "0", "1", "2", "3", "4", "5", "6">>,
      <<"7", "9", "0", "0", "1", "2", "3", "4", "5", "6", "7">>,
      <<"+", "7", "9", "0", "0", "1", "2", "3", "4", "5", "6", "a">>,
      <<"+", "7", "9", "0", "0", "1", "2", "3", "4", "5", "6", "u0665">> }
FioTexts ==
    { <<"RU_I", "ru_v", "ru_a", "ru_n", " ", "RU_P", "ru_e", "ru_t", "ru_r", "ru_o", "ru_v">>,
      <<"RU_A", "ru_n", "ru_n", "ru_a", "-", "RU_M", "ru_a", "ru_r", "ru_i", "ru_ya">>,
      <<"RU_YO", "ru_zh", "ru_i">>,
      <<"RU_YA", "ru_n">>,
      <<"I", "v", "a", "n", " ", "P", "e", "t", "r", "o", "v">>,
      <<"RU_I", "ru_v", "ru_a", "ru_n", "1">>,
      <<" ", "RU_I", "ru_ya", " ">> } \cup {Repeat("ru_a", 101)}
\* the two addresses of the specification's scenario
MoscowAddress ==
    <<"ru_u", "ru_l", ".", " ", "RU_L", "ru_e", "ru_n", "ru_i", "ru_n", "ru_a", ",", " ", "5", ",", " ",
      "RU_M", "ru_o", "ru_s", "ru_k", "ru_v", "ru_a">>
SpringfieldAddress ==
    <<"1", "2", "3", " ", "M", "a", "i", "n", " ", "S", "t", ",", " ",
      "S", "p", "r", "i", "n", "g", "f", "i", "e", "l", "d">>
AddressTexts ==
    {MoscowAddress, SpringfieldAddress} \cup
    { <<"RU_M", "ru_o", "ru_s", "ru_k", "ru_v", "ru_a", ",", " ", "RU_T", "ru_v", "ru_e", "ru_r", "ru_s", "ru_k", "ru_a", "ru_ya", " ", "1">>,
      <<"r", "u", "s", "s", "i", "a", ",", " ", "k", "a", "z", "a", "n", " ", "5">>,
      <<"R", "u", "s", "s", "i", "a">>,
      <<"P", "a", "r", "i", "s", ",", " ", "R", "u", "e", " ", "5">>,
      <<"ru_s", "ru_p", "ru_b">>,
      <<"u", "s", "a">>,
      <<"a", " ", "b">> } \cup {Repeat("a", 495) \o <<"r", "u", "s", "s", "i", "a">>}
Texts == PhoneTexts \cup FioTexts \cup AddressTexts

(* ------------------------- order form: handlers ------------------------ *)
\* flows of the chat that went as far as confirm_order
Flows ==
    Cardinality({i \in DOMAIN steps[FormChat] : steps[FormChat][i] = "createPayment"})

\* `if stock <= 0:` of start_order_flow
OutOfStockNever(stock) == FALSE
OutOfStock(stock) == stock <= 0

\* no handler of the chat is running: updates of one chat are handled one
\* after the other
HandlerIdle ==
    /\ pc[FormChat] \in {"idle", "ASKING_CONFIRMATION", "END"}
    /\ retry.wrapper = "none"

\* button_buy_product -> start_order_flow as the session sees it: the stock
\* is read; in stock, user_data.clear() and the first question; out of
\* stock, the waitlist offer
FormStart ==
    /\ conversation = "none"
    /\ HandlerIdle
    /\ Flows < MaxFlows
    /\ \E readOk \in BOOLEAN :
         IF OutOfStock(_get_stock_no_lock(readOk))
         THEN /\ conversation' = "ASKING_PHONE_WAITLIST"
              /\ reply' = "waitlist_offer"
              /\ UNCHANGED user_data
         ELSE /\ user_data' = [SessionCleared(user_data) EXCEPT !.product_id = "amulet"]
              /\ conversation' = "ASKING_PHONE"
              /\ reply' = "phone_prompt"
    /\ UNCHANGED <<operatorVars, text, order_read, mainVars, retryVars>>

ask_phone(update) ==
    LET phone == strip(update) IN
    /\ conversation = "ASKING_PHONE"
    /\ text' = update
    /\ IF Rejected(validate_phone(phone))
       THEN /\ reply' = "phone_error"
            /\ UNCHANGED <<conversation, user_data>>
       ELSE /\ user_data' = [user_data EXCEPT !.phone = phone]
            /\ reply' = "fio_prompt"
            /\ conversation' = "ASKING_FIO"
    /\ UNCHANGED <<operatorVars, order_read, mainVars, retryVars>>

ask_fio(update) ==
    LET fio == strip(update) IN
    /\ conversation = "ASKING_FIO"
    /\ text' = update
    /\ IF Rejected(validate_fio(fio))
       THEN /\ reply' = "fio_error"
            /\ UNCHANGED <<conversation, user_data>>
       ELSE IF user_data.product_id \in {"kid", "special"}
            THEN /\ user_data' = [user_data EXCEPT !.fio = fio,
                                                   !.address = <<"online">>]
                 /\ reply' = "certificate_reviews"
                 /\ conversation' = "SHOWING_REVIEWS"
            ELSE /\ user_data' = [user_data EXCEPT !.fio = fio]
                 /\ reply' = "address_prompt"
                 /\ conversation' = "ASKING_ADDRESS"
    /\ UNCHANGED <<operatorVars, order_read, mainVars, retryVars>>

ask_address(update) ==
    LET address == strip(update) IN
    /\ conversation = "ASKING_ADDRESS"
    /\ text' = update
    /\ IF Rejected(validate_address(address))
       THEN /\ reply' = "address_length_error"
            /\ UNCHANGED <<conversation, user_data>>
       ELSE IF Rejected(is_russian_address(address))
            THEN /\ reply' = "address_country_error"
                 /\ UNCHANGED <<conversation, user_data>>
            ELSE /\ user_data' = [user_data EXCEPT !.address = address]
                 /\ reply' = "reviews"
                 /\ conversation' = "SHOWING_REVIEWS"
    /\ UNCHANGED <<operatorVars, order_read, mainVars, retryVars>>

(* ------------------- gift flow and end of the session ------------------ *)
\* the character classes of email_regex in ask_email
EmailWordChars == Range(LatinLowerSeq) \cup Range(LatinUpperSeq) \cup AsciiDigits
EmailLocalChars == EmailWordChars \cup {"_", ".", "+", "-"}
EmailDomainChars == EmailWordChars \cup {"-"}
\* re.match(r"(^[a-zA-Z0-9_.+-]+@[a-zA-Z0-9-]+\.[a-zA-Z0-9-.]+$)", email)
email_regex(email) ==
    \E at \in 2..Len(email), dot \in 4..(Len(email) - 1) :
        /\ at + 1 < dot
        /\ email[at] = "@"
        /\ email[dot] = "."
        /\ \A i \in 1..(at - 1) : email[i] \in EmailLocalChars
        /\ \A i \in (at + 1)..(dot - 1) : email[i] \in EmailDomainChars
        /\ \A i \in (dot + 1)..Len(email) : email[i] \in EmailDomainChars \cup {"."}

\* texts the buyer of the session sends: a phone, the buyer's name, the name
\* on a certificate and an email; the address is MoscowAddress
SessionPhone == <<"+", "7", "9", "0", "0", "1", "2", "3", "4", "5", "6", "7">>
SessionName == <<"RU_YO", "ru_zh", "ru_i">>
SessionGiftName == <<"RU_A", "ru_n", "ru_ya">>
SessionEmail == <<"a", "@", "b", ".", "r", "u">>

\* the conversation is at ASKING_CONFIRMATION: the buttons confirm_order and
\* cancel_order are shown for the product of the session
AtConfirmation(prod) ==
    /\ conversation' = "ASKING_CONFIRMATION"
    /\ pc' = [pc EXCEPT ![FormChat] = "ASKING_CONFIRMATION"]
    /\ product_id' = [product_id EXCEPT ![FormChat] = prod]
    /\ UNCHANGED <<operatorVars, startVars, stockVars, stock_lock, pendingVars, storeVars,
                   msgVars, current, attempt, outcome, payment, steps, seen,
                   hookVars, delta, ledger>>

\* an entry point or fallback takes the conversation over: the buttons of
\* ASKING_CONFIRMATION are no longer handled
LeaveConfirmation ==
    /\ pc' = [pc EXCEPT ![FormChat] = IF @ = "ASKING_CONFIRMATION" THEN "idle" ELSE @]
    /\ UNCHANGED <<operatorVars, startVars, stockVars, stock_lock, pendingVars, storeVars,
                   msgVars, current, buyerVars, hookVars, delta, ledger>>

\* start_gift_flow: entry point and fallback of the conversation
start_gift_flow(flow_type) ==
    /\ HandlerIdle
    /\ Flows < MaxFlows
    /\ user_data' = [user_data EXCEPT !.flow_type = flow_type]
    /\ conversation' = "ASKING_NAME_GIFT"
    /\ reply' = "gift_offer"
    /\ LeaveConfirmation
    /\ UNCHANGED <<text, order_read, retryVars>>

\* /start: entry point and fallback; the menu it shows reads the stock
start ==
    /\ HandlerIdle
    /\ user_data' = SessionCleared(user_data)
    /\ conversation' = "none"
    /\ reply' = "menu"
    /\ LeaveConfirmation
    /\ UNCHANGED <<text, order_read, retryVars>>

\* /help: entry point and fallback
help_command ==
    /\ HandlerIdle
    /\ conversation' = "none"
    /\ reply' = "help"
    /\ LeaveConfirmation
    /\ UNCHANGED <<user_data, text, order_read, retryVars>>

start_gift_data_button ==
    /\ conversation = "ASKING_NAME_GIFT"
    /\ reply' = "gift_name_prompt"
    /\ UNCHANGED <<operatorVars, conversation, user_data, text, order_read, mainVars, retryVars>>

ask_name_gift(update) ==
    /\ conversation = "ASKING_NAME_GIFT"
    /\ text' = update
    /\ user_data' = [user_data EXCEPT !.gift_name = strip(update)]
    /\ reply' = "email_prompt"
    /\ conversation' = "ASKING_EMAIL"
    /\ UNCHANGED <<operatorVars, order_read, mainVars, retryVars>>

ask_email(update) ==
    LET email == strip(update) IN
    /\ conversation = "ASKING_EMAIL"
    /\ text' = update
    /\ IF ~email_regex(email)
       THEN /\ reply' = "email_error"
            /\ UNCHANGED <<conversation, user_data>>
       ELSE /\ user_data' = [user_data EXCEPT !.email = email]
            /\ reply' = "gift_phone_prompt"
            /\ conversation' = "ASKING_PHONE_GIFT"
    /\ UNCHANGED <<operatorVars, order_read, mainVars, retryVars>>

ask_phone_gift(update) ==
    LET phone == strip(update) IN
    /\ conversation = "ASKING_PHONE_GIFT"
    /\ text' = update
    /\ IF ~validate_phone(phone)
       THEN /\ reply' = "gift_phone_error"
            /\ UNCHANGED <<conversation, user_data>>
       ELSE /\ user_data' = [user_data EXCEPT !.phone = phone]
            /\ reply' = "certificate_types"
            /\ conversation' = "CHOOSING_CERT_TYPE"
    /\ UNCHANGED <<operatorVars, order_read, mainVars, retryVars>>

\* the certificates sent by electronic delivery
DigitalCertificates == {"cert_digital", "cert_special_digital"}

\* choose_cert_type, with show_confirmation_gift for a digital certificate
choose_cert_type(choice) ==
    /\ conversation = "CHOOSING_CERT_TYPE"
    /\ IF choice \in DigitalCertificates
       THEN /\ user_data' = [user_data EXCEPT !.product_id = choice,
                                              !.address = <<"electronic">>]
            /\ reply' = "gift_confirmation"
            /\ AtConfirmation(choice)
       ELSE /\ user_data' = [user_data EXCEPT !.product_id = choice]
            /\ reply' = "gift_address_prompt"
            /\ conversation' = "ASKING_ADDRESS_GIFT"
            /\ UNCHANGED <<operatorVars, mainVars>>
    /\ UNCHANGED <<text, order_read, retryVars>>

\* ask_address_gift, with show_confirmation_gift
ask_address_gift(update) ==
    LET address == strip(update) IN
    /\ conversation = "ASKING_ADDRESS_GIFT"
    /\ text' = update
    /\ IF Len(address) < 5
       THEN /\ reply' = "gift_address_error"
            /\ UNCHANGED <<operatorVars, conversation, user_data, mainVars>>
       ELSE /\ user_data' = [user_data EXCEPT !.address = address]
            /\ reply' = "gift_confirmation"
            /\ AtConfirmation(user_data.product_id)
    /\ UNCHANGED <<order_read, retryVars>>

\* show_order_confirmation: the button under the reviews
show_order_confirmation ==
    /\ conversation = "SHOWING_REVIEWS"
    /\ reply' = "order_confirmation"
    /\ AtConfirmation(user_data.product_id)
    /\ UNCHANGED <<user_data, text, order_read, retryVars>>

(* ------------------------------ waitlist ------------------------------- *)
join_waitlist ==
    /\ conversation = "ASKING_PHONE_WAITLIST"
    /\ HandlerIdle
    /\ reply' = "waitlist_phone_prompt"
    /\ UNCHANGED <<operatorVars, conversation, user_data, text, order_read, mainVars, retryVars>>

skip_waitlist ==
    /\ conversation = "ASKING_PHONE_WAITLIST"
    /\ HandlerIdle
    /\ reply' = "waitlist_skipped"
    /\ conversation' = "none"
    /\ UNCHANGED <<operatorVars, user_data, text, order_read, mainVars, retryVars>>

\* ask_phone_waitlist up to the call of add_to_waitlist_with_retry
ask_phone_waitlist(update) ==
    LET phone == strip(update) IN
    /\ conversation = "ASKING_PHONE_WAITLIST"
    /\ HandlerIdle
    /\ text' = update
    /\ IF ~validate_phone(phone)
       THEN /\ reply' = "phone_error"
            /\ UNCHANGED retry
       ELSE /\ retry.calls < MaxCalls
            /\ retry' = [NoRetry EXCEPT !.wrapper = "add_to_waitlist", !.key = phone,
                                        !.user = FormChat, !.result = "running",
                                        !.calls = retry.calls]
            /\ UNCHANGED reply
    /\ UNCHANGED <<operatorVars, conversation, user_data, order_read, mainVars, sheetWaitlist,
                   WAITLIST_DATA>>

\* ask_phone_waitlist after add_to_waitlist_with_retry returned
WaitlistReturn ==
    /\ conversation = "ASKING_PHONE_WAITLIST"
    /\ retry.wrapper = "add_to_waitlist"
    /\ retry.result \in {"True", "False"}
    /\ IF retry.result = "True"
       THEN /\ reply' = "waitlist_thanks"
            /\ adminMsgs' = Bump(adminMsgs, "waitlist_joined", payment_id(retry.user))
       ELSE /\ reply' = "waitlist_error"
            /\ UNCHANGED adminMsgs
    /\ conversation' = "none"
    /\ retry' = [NoRetry EXCEPT !.calls = retry.calls + 1]
    /\ UNCHANGED <<operatorVars, user_data, text, order_read, sheetWaitlist, WAITLIST_DATA,
                   startVars, stockVars, stock_lock, pendingVars, storeVars,
                   userMsgs, pc, current, buyerVars, hookVars, delta, ledger>>

\* confirm_order or cancel_order has returned ConversationHandler.END
ConversationEnd ==
    /\ conversation = "ASKING_CONFIRMATION"
    /\ pc[FormChat] = "END"
    /\ conversation' = "none"
    /\ UNCHANGED <<operatorVars, user_data, text, reply, order_read, mainVars, retryVars>>

(* --------------------------- retry wrappers ---------------------------- *)
Wrappers == {"add_order", "update_status", "add_to_waitlist"}

\* phones ask_phone_waitlist passes on: it validates the stripped text first
WaitlistPhones == {strip(t) : t \in {u \in PhoneTexts : validate_phone(u)}}

\* GoogleSheetsHandler.add_to_waitlist: True, or False when the sheet raised
sheets_add_to_waitlist(bodyOk) == bodyOk

\* what one pass of the loop body of wrapper W gets from the operation
WrappedCall(W, key, bodyOk) ==
    CASE W = "add_order" -> add_order_attempt(bodyOk)
      [] W = "update_status" ->
            IF update_order_status_with_retry(key, bodyOk) THEN "True" ELSE "False"
      [] W = "add_to_waitlist" ->
            IF SHEETS_AVAILABLE
            THEN (IF sheets_add_to_waitlist(bodyOk) THEN "True" ELSE "False")
            ELSE "True"

\* the `except` branch of the last pass: send_admin_notification in
\* add_order_to_sheets_with_retry and update_order_status_with_retry,
\* logger.error alone in add_to_waitlist_with_retry
AlertsOnException(W) == W \in {"add_order", "update_status"}
AlertKind(W) == IF W = "add_order" THEN "unsaved_retry" ELSE "status_retry"

\* a handler calls one of the wrappers
RetryCall(W, key, status, user) ==
    /\ retry.wrapper = "none"
    /\ retry.calls < MaxCalls
    /\ IF W = "add_to_waitlist"
       THEN key \in WaitlistPhones /\ status = "none" /\ user \in Buyers
       ELSE /\ key \in PaymentIds /\ user = "none"
            /\ status \in (IF W = "add_order" THEN {STATUS_WAITING}
                                              ELSE {STATUS_PAID, STATUS_CANCELED})
    /\ retry' = [NoRetry EXCEPT !.wrapper = W, !.key = key, !.status = status,
                                !.user = user, !.result = "running",
                                !.calls = retry.calls]
    /\ UNCHANGED <<operatorVars, mainVars, sheetWaitlist, WAITLIST_DATA, formVars>>

\* what a successful pass writes
RetryStore(W, key, status, user, bodyOk) ==
    CASE W = "add_order" ->
            /\ IF SHEETS_AVAILABLE
               THEN /\ sheetOrders' = Put(sheetOrders, key, status)
                    /\ UNCHANGED ORDERS_DATA
               ELSE /\ ORDERS_DATA' = Put(ORDERS_DATA, key, status)
                    /\ UNCHANGED sheetOrders
            /\ UNCHANGED <<sheetWaitlist, WAITLIST_DATA>>
      [] W = "update_status" ->
            /\ UpdateOrderStatus(key, status, bodyOk)
            /\ UNCHANGED <<sheetWaitlist, WAITLIST_DATA>>
      [] W = "add_to_waitlist" ->
            /\ IF SHEETS_AVAILABLE
               THEN /\ sheetWaitlist' = Append(sheetWaitlist, <<key, user>>)
                    /\ UNCHANGED WAITLIST_DATA
               ELSE /\ WAITLIST_DATA' = Put(WAITLIST_DATA, key, user)
                    /\ UNCHANGED sheetWaitlist
            /\ UNCHANGED storeVars

\* one pass of the `for attempt in range(MAX_RETRIES)` loop of the running
\* wrapper, up to its return or the start of the next pass
RetryAttempt ==
    /\ retry.result = "running"
    /\ \E bodyOk \in BOOLEAN :
         LET W == retry.wrapper
             n == retry.attempt
             r == WrappedCall(W, retry.key, bodyOk)
             tried == [retry EXCEPT !.results = Append(@, r)]
         IN
         CASE r = "True" ->
                 /\ retry' = [tried EXCEPT !.result = "True"]
                 /\ RetryStore(W, retry.key, retry.status, retry.user, bodyOk)
                 /\ UNCHANGED adminMsgs
           [] r = "False" ->
                 \* `if success:` not taken, the loop goes on; after the last
                 \* pass the function ends with `return False`
                 /\ retry' = IF LoopContinues(n)
                             THEN [tried EXCEPT !.attempt = n + 1]
                             ELSE [tried EXCEPT !.result = "False"]
                 /\ UNCHANGED <<storeVars, sheetWaitlist, WAITLIST_DATA, adminMsgs>>
           [] r = "TypeError" ->
                 \* the `except Exception` branch of the pass
                 /\ IF n < MAX_RETRIES - 1
                    THEN /\ retry' = [tried EXCEPT !.attempt = n + 1]
                         /\ UNCHANGED adminMsgs
                    ELSE IF AlertsOnException(W)
                         THEN /\ retry' = [tried EXCEPT !.result = "False",
                                                        !.alerts = @ + 1]
                              /\ adminMsgs' = Bump(adminMsgs, AlertKind(W), retry.key)
                         ELSE /\ retry' = [tried EXCEPT !.result = "False"]
                              /\ UNCHANGED adminMsgs
                 /\ UNCHANGED <<storeVars, sheetWaitlist, WAITLIST_DATA>>
           [] r = "NameError" ->
                 \* raised in the `else:` branch, outside the `try`
                 /\ retry' = [tried EXCEPT !.result = "NameError"]
                 /\ UNCHANGED <<storeVars, sheetWaitlist, WAITLIST_DATA, adminMsgs>>
    /\ UNCHANGED <<operatorVars, startVars, stockVars, stock_lock, pendingVars, userMsgs,
                   pc, current, buyerVars, hookVars, delta, ledger, formVars>>

\* the wrapper's result has reached the handler that called it
RetryReturn ==
    /\ retry.wrapper # "none"
    /\ retry.result # "running"
    /\ retry' = [NoRetry EXCEPT !.calls = retry.calls + 1]
    /\ UNCHANGED <<operatorVars, mainVars, sheetWaitlist, WAITLIST_DATA, formVars>>

(* ------------------------- operator commands --------------------------- *)
\* cmd_stock up to `stock = await get_stock()`
cmd_stock(a) ==
    /\ pc[a] = "idle"
    /\ pc' = [pc EXCEPT ![a] = "get_acquire"]
    /\ UNCHANGED <<operatorVars, retryVars, formVars, startVars, stockVars, stock_lock, pendingVars,
                   storeVars, msgVars, current, buyerVars, hookVars, delta, ledger>>

\* get_stock inside the lock, and the rest of cmd_stock: the report to the
\* operator changes nothing of the state
AdminGetStock(a) ==
    /\ pc[a] = "get_read"
    /\ \E readOk \in BOOLEAN : _get_stock_no_lock(readOk) >= 0
    /\ stock_lock' = Released
    /\ pc' = [pc EXCEPT ![a] = "idle"]
    /\ UNCHANGED <<operatorVars, retryVars, formVars, startVars, stockVars, pendingVars, storeVars,
                   msgVars, current, buyerVars, hookVars, delta, ledger>>

\* cmd_setstock up to `success = await set_stock(quantity)`; a negative
\* quantity is refused before
cmd_setstock(a, quantity) ==
    /\ pc[a] = "idle"
    /\ quantity >= 0
    /\ current' = [current EXCEPT ![a] = quantity]
    /\ pc' = [pc EXCEPT ![a] = "set_acquire"]
    /\ UNCHANGED <<operatorVars, retryVars, formVars, startVars, stockVars, stock_lock, pendingVars,
                   storeVars, msgVars, buyerVars, hookVars, delta, ledger>>

\* set_stock inside the lock, and the rest of cmd_setstock: its messages go
\* to the operator alone
AdminSetStock(a) ==
    /\ pc[a] = "set_write"
    /\ \E writeOk \in BOOLEAN : SetStockNoLock(current[a], writeOk)
    /\ stock_lock' = Released
    /\ pc' = [pc EXCEPT ![a] = "idle"]
    /\ UNCHANGED <<operatorVars, retryVars, formVars, startVars, pendingVars, storeVars, msgVars,
                   current, buyerVars, hookVars, delta, ledger>>

(* ------------------------------ restart -------------------------------- *)
\* load_pending_payments: the content of pending_payments.json, or {} when
\* the file does not exist.  Every key is a str and every value a dict of
\* str and int, which json.dump and json.load give back as they were.
LoadedNothing(file) == EmptyDict
load_pending_payments(file) == file

\* the process is stopped and started again: the tasks of the old process are
\* gone, the module is initialised anew (STOCK_DATA, ORDERS_DATA,
\* WAITLIST_DATA, stock_lock, the handler's session memory) and
\* PENDING_PAYMENTS is loaded from the file; the sheets and the messages
\* already sent stay.  A buyer whose checkout had begun does not begin
\* another one in the run.
Restart ==
    /\ restarts < MaxRestarts
    /\ restarts' = restarts + 1
    /\ SHEETS_AVAILABLE' \in BOOLEAN
    /\ STOCK_DATA' = DefaultQuantity
    /\ ORDERS_DATA' = EmptyDict
    /\ WAITLIST_DATA' = EmptyDict
    /\ PENDING_PAYMENTS' = load_pending_payments(pendingFile)
    /\ stock_lock' = NoHolder
    /\ pc' = [t \in Tasks |-> IF t \in Buyers /\ pc[t] # "idle" THEN "END" ELSE "idle"]
    /\ current' = [t \in Tasks |-> 0]
    /\ hook' = [w \in Hooks |-> NoHook]
    /\ product_id' = [b \in Buyers |-> "none"]
    /\ attempt' = [b \in Buyers |-> 0]
    /\ retry' = [NoRetry EXCEPT !.calls = retry.calls]
    /\ conversation' = "none"
    /\ user_data' = NoData
    /\ broadcast' = NoBroadcast
    /\ UNCHANGED <<sheetStock, pendingFile, sheetOrders, sheetWaitlist, msgVars,
                   outcome, payment, steps, seen, deliveries, delta, ledger,
                   text, reply, order_read, worksheet, returned>>

(* ------------------- GoogleSheetsHandler: the stock sheet -------------- *)
\* A cell is the text get_all_values gives for it, a tuple of characters.
\* str(quantity) for a quantity from 0 to 99
DigitSeq == <<"0", "1", "2", "3", "4", "5", "6", "7", "8", "9">>
str(n) == IF n < 10 THEN <<DigitSeq[n + 1]>>
          ELSE <<DigitSeq[(n \div 10) + 1], DigitSeq[(n % 10) + 1]>>

\* s.replace(' ', '')
RECURSIVE remove_spaces(_)
remove_spaces(s) ==
    IF s = <<>> THEN <<>>
    ELSE IF Head(s) = " " THEN remove_spaces(Tail(s))
    ELSE <<Head(s)>> \o remove_spaces(Tail(s))

\* s.split('.')[0]
RECURSIVE before_dot(_)
before_dot(s) ==
    IF s = <<>> \/ Head(s) = "." THEN <<>>
    ELSE <<Head(s)>> \o before_dot(Tail(s))

\* the value of a decimal digit
digit_value(c) ==
    IF c = "u0665" THEN 5 ELSE (CHOOSE i \in DOMAIN DigitSeq : DigitSeq[i] = c) - 1
RECURSIVE digits_value(_)
digits_value(s) ==
    IF s = <<>> THEN 0
    ELSE 10 * digits_value(SubSeq(s, 1, Len(s) - 1)) + digit_value(s[Len(s)])

\* try: int(str(cell).replace(' ', '').split('.')[0])  except: 0
parse_stock(cell) ==
    LET s == strip(before_dot(remove_spaces(cell)))
        signed == s # <<>> /\ Head(s) \in {"+", "-"}
        body == IF signed THEN Tail(s) ELSE s IN
    IF body = <<>> \/ \E i \in DOMAIN body : body[i] \notin Digits THEN 0
    ELSE IF signed /\ Head(s) = "-" THEN 0 - digits_value(body)
    ELSE digits_value(body)

\* the header heuristic of get_products_raw: index of the first data row
start_index(all_values) ==
    IF all_values # <<>> /\ all_values[1] # <<>>
       /\ LET first_cell == strip(lower(all_values[1][1])) IN
          \/ Contains(first_cell, <<"i", "d">>)
          \/ Contains(first_cell, <<"p", "r", "o", "d", "u", "c", "t">>)
    THEN 1 ELSE 0

\* get_products_raw: the rows that have four cells and an id, in sheet order,
\* each with its id, its stock and its 1-based row number; [] when the read
\* raises
RECURSIVE products_from(_, _)
products_from(all_values, i) ==
    IF i > Len(all_values) THEN <<>>
    ELSE LET row_data == all_values[i] IN
         IF Len(row_data) < 4 \/ strip(row_data[1]) = <<>>
         THEN products_from(all_values, i + 1)
         ELSE <<[id |-> strip(row_data[1]), stock |-> parse_stock(row_data[4]),
                 row |-> i]>> \o products_from(all_values, i + 1)
get_products_raw(all_values, readOk) ==
    IF readOk THEN products_from(all_values, start_index(all_values) + 1) ELSE <<>>

AmuletId == <<"a", "m", "u", "l", "e", "t">>

\* get_products()['amulet']: a later row with the same id replaces an
\* earlier one in the dict
AmuletItems(raw) == {i \in DOMAIN raw : raw[i].id = AmuletId}
LastItem(raw) == raw[CHOOSE i \in AmuletItems(raw) : \A j \in AmuletItems(raw) : j <= i]
\* `for p in vals: if p['id'] == 'amulet': ... break`
FirstItem(raw) == raw[CHOOSE i \in AmuletItems(raw) : \A j \in AmuletItems(raw) : i <= j]

\* GoogleSheetsHandler.get_stock
handler_get_stock(all_values, readOk) ==
    LET raw == get_products_raw(all_values, readOk) IN
    IF AmuletItems(raw) # {} THEN LastItem(raw).stock ELSE 0

\* the row set_stock writes, 0 for None
target_row(all_values, readOk) ==
    LET raw == get_products_raw(all_values, readOk) IN
    IF AmuletItems(raw) # {} THEN FirstItem(raw).row ELSE 0

\* worksheet.update_cell(row, col, value)
update_cell(all_values, row, col, value) ==
    [all_values EXCEPT ![row][col] = str(value)]

\* GoogleSheetsHandler.set_stock: the result and the sheet it leaves
handler_set_stock_ok(all_values, readOk, writeOk) ==
    target_row(all_values, readOk) # 0 /\ writeOk
handler_set_stock_sheet(all_values, quantity, readOk, writeOk) ==
    IF handler_set_stock_ok(all_values, readOk, writeOk)
    THEN update_cell(all_values, target_row(all_values, readOk), 4, quantity)
    ELSE all_values

\* stock sheets an operator keeps
HeaderRow == <<<<"i", "d">>, <<"n", "a", "m", "e">>, <<"p", "r", "i", "c", "e">>,
               <<"s", "t", "o", "c", "k">>>>
ShortHeaderRow == <<<<"i", "d">>, <<".", ".", ".">>>>
AmuletRow(stock) == <<AmuletId, <<"M", "a", "i", "n">>, <<"1", "0", "0">>, stock>>
OtherRow == <<<<"o", "t", "h", "e", "r">>, <<".", ".", ".">>, <<"1">>, <<"1">>>>
KidRow == <<<<"k", "i", "d">>, <<"K", "i", "d">>, <<"1", "0">>, <<"9">>>>
SampleSheets ==
    { <<>>,
      <<HeaderRow, AmuletRow(<<"5", "0">>)>>,
      <<ShortHeaderRow, OtherRow>>,
      <<AmuletRow(<<"1", " ", "2">>)>>,
      <<HeaderRow, KidRow, AmuletRow(<<"a", "b", "c">>)>>,
      <<HeaderRow, <<<<" ", "a", "m", "u", "l", "e", "t", " ">>, <<"M">>, <<"1">>, <<"3", ".", "0">>>>>>,
      <<HeaderRow, AmuletRow(<<"1">>), AmuletRow(<<"7">>)>>,
      <<HeaderRow, <<AmuletId, <<"M">>, <<"1">>>>>>,
      <<KidRow, AmuletRow(<<"4">>)>> }
\* quantities set_stock is called with
SheetQuantities == {0, MaxInitStock, 10 + MaxInitStock}

\* the operator edits the sheet by hand
OperatorEditsSheet ==
    /\ worksheet' \in SampleSheets
    /\ worksheet' # worksheet
    /\ returned' = NoCall
    /\ UNCHANGED <<broadcast, mainVars, retryVars, formVars>>

\* a call of GoogleSheetsHandler.get_stock
SheetGetStock ==
    /\ \E readOk \in BOOLEAN :
         returned' = [op |-> "get_stock", quantity |-> 0, ok |-> readOk,
                      stock |-> handler_get_stock(worksheet, readOk)]
    /\ UNCHANGED <<worksheet, broadcast, mainVars, retryVars, formVars>>

\* a call of GoogleSheetsHandler.set_stock
SheetSetStock(quantity) ==
    /\ \E readOk, writeOk \in BOOLEAN :
         /\ worksheet' = handler_set_stock_sheet(worksheet, quantity, readOk, writeOk)
         /\ returned' = [op |-> "set_stock", quantity |-> quantity,
                         ok |-> handler_set_stock_ok(worksheet, readOk, writeOk),
                         stock |-> 0]
    /\ UNCHANGED <<broadcast, mainVars, retryVars, formVars>>

(* --------------------------- /notify_waitlist -------------------------- *)
\* get_waitlist_from_sheets in sheets mode: a dict keyed by phone built from
\* the rows in sheet order, a later row of a phone replacing the earlier
\* one; sheets.get_waitlist gives [] when the read raised
RECURSIVE waitlist_from_rows(_)
waitlist_from_rows(rows) ==
    IF rows = <<>> THEN EmptyDict
    ELSE Put(waitlist_from_rows(SubSeq(rows, 1, Len(rows) - 1)),
             rows[Len(rows)][1], rows[Len(rows)][2])
get_waitlist_from_sheets(readOk) ==
    IF SHEETS_AVAILABLE
    THEN (IF readOk THEN waitlist_from_rows(sheetWaitlist) ELSE EmptyDict)
    ELSE WAITLIST_DATA

\* the dict `for phone, data in waitlist.items()` walks: in local mode it is
\* WAITLIST_DATA itself, not a copy
Walked == IF broadcast.alias THEN WAITLIST_DATA ELSE broadcast.waitlist
\* next() of the dict iterator raises RuntimeError when the dict has changed
\* size since the loop began
ChangedSize == Cardinality(DOMAIN Walked) # broadcast.size
\* phones the loop has not come to yet
Remaining == DOMAIN Walked \ {e[1] : e \in broadcast.attempted}

\* the loop takes the next item and begins application.bot.send_message
BeginSend(b, phone) ==
    [b EXCEPT !.at = "sending", !.item = <<phone, Walked[phone]>>,
              !.attempted = @ \cup {<<phone, Walked[phone]>>}]

\* cmd_notify_waitlist up to the first send_message
cmd_notify_waitlist ==
    /\ broadcast.at = "idle"
    /\ \E readOk \in BOOLEAN :
         LET waitlist == get_waitlist_from_sheets(readOk)
             begun == [NoBroadcast EXCEPT !.waitlist = IF SHEETS_AVAILABLE THEN waitlist ELSE <<>>,
                                          !.alias = ~SHEETS_AVAILABLE,
                                          !.size = Cardinality(DOMAIN waitlist)] IN
         IF waitlist = EmptyDict
         THEN broadcast' = [NoBroadcast EXCEPT !.at = "empty"]
         ELSE \E phone \in DOMAIN waitlist :
                 broadcast' = [begun EXCEPT !.at = "sending",
                                            !.item = <<phone, waitlist[phone]>>,
                                            !.attempted = {<<phone, waitlist[phone]>>}]
    /\ UNCHANGED <<worksheet, returned, mainVars, retryVars, formVars>>

\* the reply "the waitlist is empty" has been sent
NotifyEmpty ==
    /\ broadcast.at = "empty"
    /\ broadcast' = NoBroadcast
    /\ UNCHANGED <<worksheet, returned, mainVars, retryVars, formVars>>

\* send_message has returned or raised; the loop goes to its next item, or
\* past its end to sheets.clear_waitlist (sheets mode) or to
\* send_admin_notification
NotifySent ==
    /\ broadcast.at = "sending"
    /\ \E sendOk \in BOOLEAN :
         LET sent == [broadcast EXCEPT !.notified = IF sendOk THEN @ + 1 ELSE @,
                                       !.item = <<>>] IN
         IF ChangedSize
         THEN broadcast' = [sent EXCEPT !.at = "RuntimeError"]
         ELSE IF Remaining # {}
         THEN \E phone \in Remaining : broadcast' = BeginSend(sent, phone)
         ELSE broadcast' = [sent EXCEPT !.at = IF SHEETS_AVAILABLE THEN "clearing"
                                                                  ELSE "notifying"]
    /\ UNCHANGED <<worksheet, returned, mainVars, retryVars, formVars>>

\* the RuntimeError has left the handler
NotifyRaised ==
    /\ broadcast.at = "RuntimeError"
    /\ broadcast' = [broadcast EXCEPT !.at = "idle"]
    /\ UNCHANGED <<worksheet, returned, mainVars, retryVars, formVars>>

\* await asyncio.to_thread(sheets.clear_waitlist): worksheet.clear()
NotifyClearSheet ==
    /\ broadcast.at = "clearing"
    /\ \E clearOk \in BOOLEAN :
         sheetWaitlist' = IF clearOk THEN <<>> ELSE sheetWaitlist
    /\ broadcast' = [broadcast EXCEPT !.at = "notifying"]
    /\ UNCHANGED <<worksheet, returned, mainVars, retry, WAITLIST_DATA, formVars>>

\* send_admin_notification has returned: WAITLIST_DATA.clear() and the reply
NotifyFinish ==
    /\ broadcast.at = "notifying"
    /\ WAITLIST_DATA' = EmptyDict
    /\ broadcast' = [broadcast EXCEPT !.at = "idle"]
    /\ UNCHANGED <<worksheet, returned, mainVars, retry, sheetWaitlist, formVars>>

(* --------------------------- specifications ---------------------------- *)
\* checkout: two buyers at once and one webhook handler task
CheckoutBuyers == {"b1", "b2"}
CheckoutHooks == {"w1"}
CheckoutGifts == {"cert_digital"}

Next ==
    \/ \E t \in CheckoutBuyers \cup CheckoutHooks : LockAcquire(t)
    \/ \E b \in CheckoutBuyers : ButtonBuyProduct(b)
    \/ \E b \in CheckoutBuyers : StartOrderFlow(b)
    \/ \E b \in CheckoutBuyers, p \in CheckoutGifts : StartGiftFlow(b, p)
    \/ \E b \in CheckoutBuyers : CancelOrder(b)
    \/ \E b \in CheckoutBuyers : ConfirmOrder(b)
    \/ \E b \in CheckoutBuyers : DecreaseRead(b)
    \/ \E b \in CheckoutBuyers : DecreaseWrite(b)
    \/ \E b \in CheckoutBuyers : AddOrderAttempt(b)
    \/ \E t \in CheckoutBuyers \cup CheckoutHooks : IncreaseRead(t)
    \/ \E t \in CheckoutBuyers \cup CheckoutHooks : IncreaseWrite(t)
    \/ \E w \in CheckoutHooks : WebhookReceive(w)
    \/ \E w \in CheckoutHooks : UpdatePaid(w)
    \/ \E w \in CheckoutHooks : NotifyPaid(w)
    \/ \E w \in CheckoutHooks : UpdateCanceled(w)
    \/ \E w \in CheckoutHooks : NotifyCanceled(w)
    \/ \E p \in PaymentIds : OperatorAddsOrder(p)

Spec == Init /\ [][Next]_vars

\* reconciliation: one buyer, two webhook handler tasks in the server at once
ReconcileBuyers == {"b1"}

NextReconcile ==
    \/ \E t \in ReconcileBuyers \cup Hooks : LockAcquire(t)
    \/ \E b \in ReconcileBuyers : ButtonBuyProduct(b)
    \/ \E b \in ReconcileBuyers : StartOrderFlow(b)
    \/ \E b \in ReconcileBuyers, p \in Products : StartGiftFlow(b, p)
    \/ \E b \in ReconcileBuyers : CancelOrder(b)
    \/ \E b \in ReconcileBuyers : ConfirmOrder(b)
    \/ \E b \in ReconcileBuyers : DecreaseRead(b)
    \/ \E b \in ReconcileBuyers : DecreaseWrite(b)
    \/ \E b \in ReconcileBuyers : AddOrderAttempt(b)
    \/ \E t \in ReconcileBuyers \cup Hooks : IncreaseRead(t)
    \/ \E t \in ReconcileBuyers \cup Hooks : IncreaseWrite(t)
    \/ \E w \in Hooks : WebhookReceive(w)
    \/ \E w \in Hooks : UpdatePaid(w)
    \/ \E w \in Hooks : NotifyPaid(w)
    \/ \E w \in Hooks : UpdateCanceled(w)
    \/ \E w \in Hooks : NotifyCanceled(w)
    \/ \E p \in PaymentIds : OperatorAddsOrder(p)

ReconcileSpec == Init /\ [][NextReconcile]_vars

\* the retry wrappers, called one after the other by the handlers; the event
\* loop resumes a wrapper after each asyncio.sleep
NextRetry ==
    \/ \E W \in Wrappers \ {"add_to_waitlist"}, p \in PaymentIds,
          status \in {STATUS_WAITING, STATUS_PAID, STATUS_CANCELED} :
          RetryCall(W, p, status, "none")
    \/ \E phone \in WaitlistPhones, user \in Buyers :
          RetryCall("add_to_waitlist", phone, "none", user)
    \/ RetryAttempt
    \/ RetryReturn
    \/ \E p \in PaymentIds : OperatorAddsOrder(p)

RetrySpec == Init /\ [][NextRetry]_vars /\ WF_vars(RetryAttempt)

\* the order form of one chat
NextForm ==
    \/ FormStart
    \/ \E update \in Texts : ask_phone(update)
    \/ \E update \in Texts : ask_fio(update)
    \/ \E update \in Texts : ask_address(update)

FormSpec == Init /\ [][NextForm]_vars

\* both forms of one chat up to the confirmation screen, with answers that
\* pass a gate and answers that should not
LatinName == <<"A", "n", "n">>
BadEmail == <<"a", "@", "b">>
GiftTexts ==
    {SessionGiftName, LatinName, SessionEmail, BadEmail, SessionPhone,
     MoscowAddress, SpringfieldAddress}

NextGift ==
    \/ FormStart
    \/ \E update \in GiftTexts : ask_phone(update)
    \/ \E update \in GiftTexts : ask_fio(update)
    \/ \E update \in GiftTexts : ask_address(update)
    \/ show_order_confirmation
    \/ \E flow_type \in {"kid", "special"} : start_gift_flow(flow_type)
    \/ start_gift_data_button
    \/ \E update \in GiftTexts : ask_name_gift(update)
    \/ \E update \in GiftTexts : ask_email(update)
    \/ \E update \in GiftTexts : ask_phone_gift(update)
    \/ \E choice \in Products \ {"amulet"} : choose_cert_type(choice)
    \/ \E update \in GiftTexts : ask_address_gift(update)
    \/ start

GiftSpec == Init /\ [][NextGift]_vars

\* the sessions of one chat: order flows one after the other, each up to the
\* end of confirm_order or cancel_order
NextSession ==
    \/ FormStart
    \/ \E update \in {SessionPhone} : ask_phone(update)
    \/ \E update \in {SessionName} : ask_fio(update)
    \/ \E update \in {MoscowAddress} : ask_address(update)
    \/ show_order_confirmation
    \/ \E flow_type \in {"kid", "special"} : start_gift_flow(flow_type)
    \/ start_gift_data_button
    \/ \E update \in {SessionGiftName} : ask_name_gift(update)
    \/ \E update \in {SessionEmail} : ask_email(update)
    \/ \E update \in {SessionPhone} : ask_phone_gift(update)
    \/ \E choice \in Products \ {"amulet"} : choose_cert_type(choice)
    \/ \E update \in {MoscowAddress} : ask_address_gift(update)
    \/ CancelOrder(FormChat)
    \/ ConfirmOrder(FormChat)
    \/ LockAcquire(FormChat)
    \/ DecreaseRead(FormChat)
    \/ DecreaseWrite(FormChat)
    \/ AddOrderAttempt(FormChat)
    \/ IncreaseRead(FormChat)
    \/ IncreaseWrite(FormChat)
    \/ ConversationEnd
    \/ start
    \/ skip_waitlist

SessionSpec == Init /\ [][NextSession]_vars

\* the waitlist branch of one chat
NextWaitlist ==
    \/ FormStart
    \/ join_waitlist
    \/ skip_waitlist
    \/ \E update \in {SessionPhone, SessionName} : ask_phone_waitlist(update)
    \/ RetryAttempt
    \/ WaitlistReturn
    \/ start
    \/ help_command

WaitlistSpec == Init /\ [][NextWaitlist]_vars

\* persistence: one buyer and one webhook handler task, with the process
\* started again between their steps
NextPersist ==
    \/ \E t \in ReconcileBuyers \cup CheckoutHooks : LockAcquire(t)
    \/ \E b \in ReconcileBuyers : ButtonBuyProduct(b)
    \/ \E b \in ReconcileBuyers : StartOrderFlow(b)
    \/ \E b \in ReconcileBuyers, p \in CheckoutGifts : StartGiftFlow(b, p)
    \/ \E b \in ReconcileBuyers : CancelOrder(b)
    \/ \E b \in ReconcileBuyers : ConfirmOrder(b)
    \/ \E b \in ReconcileBuyers : DecreaseRead(b)
    \/ \E b \in ReconcileBuyers : DecreaseWrite(b)
    \/ \E b \in ReconcileBuyers : AddOrderAttempt(b)
    \/ \E t \in ReconcileBuyers \cup CheckoutHooks : IncreaseRead(t)
    \/ \E t \in ReconcileBuyers \cup CheckoutHooks : IncreaseWrite(t)
    \/ \E w \in CheckoutHooks : WebhookReceive(w)
    \/ \E w \in CheckoutHooks : UpdatePaid(w)
    \/ \E w \in CheckoutHooks : NotifyPaid(w)
    \/ \E w \in CheckoutHooks : UpdateCanceled(w)
    \/ \E w \in CheckoutHooks : NotifyCanceled(w)
    \/ \E p \in PaymentIds : OperatorAddsOrder(p)
    \/ Restart

PersistSpec == Init /\ [][NextPersist]_vars

\* the ledger's lock: checkouts, the operator's commands and a webhook
\* handler task.  The event loop resumes every task that can run, and
\* asyncio.Lock wakes its waiters in the order they came.
LockBuyers == {"b1"}
LockTasks == LockBuyers \cup CheckoutHooks \cup Admins

NextLock ==
    \/ \E t \in LockTasks : LockAcquire(t)
    \/ \E b \in LockBuyers : ButtonBuyProduct(b)
    \/ \E b \in LockBuyers : StartOrderFlow(b)
    \/ \E b \in LockBuyers : ConfirmOrder(b)
    \/ \E b \in LockBuyers : DecreaseRead(b)
    \/ \E b \in LockBuyers : DecreaseWrite(b)
    \/ \E b \in LockBuyers : AddOrderAttempt(b)
    \/ \E t \in LockBuyers \cup CheckoutHooks : IncreaseRead(t)
    \/ \E t \in LockBuyers \cup CheckoutHooks : IncreaseWrite(t)
    \/ \E w \in CheckoutHooks : WebhookReceive(w)
    \/ \E w \in CheckoutHooks : UpdateCanceled(w)
    \/ \E w \in CheckoutHooks : NotifyCanceled(w)
    \/ \E a \in Admins : cmd_stock(a)
    \/ \E a \in Admins : AdminGetStock(a)
    \/ \E a \in Admins, quantity \in {0, MaxInitStock} : cmd_setstock(a, quantity)
    \/ \E a \in Admins : AdminSetStock(a)

LockFairness ==
    /\ \A t \in LockTasks : SF_vars(LockAcquire(t))
    /\ \A b \in LockBuyers : WF_vars(StartOrderFlow(b))
    /\ \A b \in LockBuyers : WF_vars(DecreaseRead(b))
    /\ \A b \in LockBuyers : WF_vars(DecreaseWrite(b))
    /\ \A t \in LockBuyers \cup CheckoutHooks : WF_vars(IncreaseRead(t))
    /\ \A t \in LockBuyers \cup CheckoutHooks : WF_vars(IncreaseWrite(t))
    /\ \A a \in Admins : WF_vars(AdminGetStock(a))
    /\ \A a \in Admins : WF_vars(AdminSetStock(a))

LockSpec == Init /\ [][NextLock]_vars /\ LockFairness

\* the stock sheet alone: the operator's edits and the handler's two calls
NextSheet ==
    \/ OperatorEditsSheet
    \/ SheetGetStock
    \/ \E quantity \in SheetQuantities : SheetSetStock(quantity)

SheetSpec == Init /\ [][NextSheet]_vars

\* two orders and two webhook handler tasks: certificates ordered by two
\* buyers; the deliveries about p1 are handled by task w1, those about p2
\* by task w2
DeliveredTo(w) == IF w = "w1" THEN "p1" ELSE "p2"

NextIsolation ==
    \/ \E b \in CheckoutBuyers, p \in CheckoutGifts : StartGiftFlow(b, p)
    \/ \E b \in CheckoutBuyers : ConfirmOrder(b)
    \/ \E b \in CheckoutBuyers : AddOrderAttempt(b)
    \/ \E w \in Hooks : LockAcquire(w)
    \/ \E w \in Hooks : IncreaseRead(w)
    \/ \E w \in Hooks : IncreaseWrite(w)
    \/ \E w \in Hooks : WebhookReceive(w) /\ hook'[w].id = DeliveredTo(w)
    \/ \E w \in Hooks : UpdatePaid(w)
    \/ \E w \in Hooks : NotifyPaid(w)
    \/ \E w \in Hooks : UpdateCanceled(w)
    \/ \E w \in Hooks : NotifyCanceled(w)
    \/ \E p \in PaymentIds : OperatorAddsOrder(p)

IsolationSpec == Init /\ [][NextIsolation]_vars

\* the broadcast to the waitlist while buyers join it
NextBroadcast ==
    \/ \E phone \in WaitlistPhones, user \in Buyers :
          RetryCall("add_to_waitlist", phone, "none", user)
    \/ RetryAttempt
    \/ RetryReturn
    \/ cmd_notify_waitlist
    \/ NotifyEmpty
    \/ NotifySent
    \/ NotifyRaised
    \/ NotifyClearSheet
    \/ NotifyFinish

BroadcastSpec == Init /\ [][NextBroadcast]_vars

(* ----------------------------- properties ------------------------------ *)
\* C1: under any interleaving of decrease_stock_safe, increase_stock_safe and
\* get_stock, no read of the stock returns a quantity below 0, and at every
\* point the successful decrements are at most the initial quantity plus the
\* increments applied so far.
StockNeverOversold ==
    /\ \A readOk \in BOOLEAN : _get_stock_no_lock(readOk) >= 0
    /\ \A t \in Tasks : current[t] >= 0
    /\ ledger.dec <= ledger.initial + ledger.inc

\* C1 case: from one unit, two decrements succeeded around one increment and
\* the quantity is back at 0
StockSoldToTheLastUnit ==
    /\ ledger.initial = 1
    /\ ledger.inc = 1
    /\ ledger.dec = 2
    /\ Quantity = 0
    /\ \A b \in CheckoutBuyers : seen[b] # NoneVal

\* C2: with one unit in stock and two buyers confirming an amulet order at
\* the same time, one of them taking the unit, exactly one checkout ends
\* with the payment link presented and the other ends out of stock.
OneLinkOneOutOfStock ==
    (/\ ledger.initial = 1
     /\ \A b \in CheckoutBuyers :
          pc[b] = "END" /\ product_id[b] = "amulet" /\ payment[b] = "created"
     /\ \E b \in CheckoutBuyers : seen[b] = 1)
    => \E b, c \in CheckoutBuyers :
          /\ b # c
          /\ outcome[b] = "payment_link"
          /\ outcome[c] = "out_of_stock"

\* C3: for a payment id, however many times the verified "succeeded" webhook
\* is delivered, the buyer's confirmation and the operator's paid
\* notification are sent at most once.
PaidNotifiedAtMostOnce ==
    \A p \in PaymentIds :
        /\ adminMsgs[<<"paid", p>>] <= 1
        /\ userMsgs[<<"amulet_details", p>>] + userMsgs[<<"certificate_thanks", p>>]
             + userMsgs[<<"special_thanks", p>>] <= 1

\* C4: when saving the order has failed after the stock was decremented for
\* an amulet order, then once confirm_order has ended the buyer's checkout
\* has had no net effect on the quantity and the operator has been alerted.
FailedSaveRestoresStock ==
    \A b \in Buyers :
        (/\ pc[b] = "END"
         /\ seen[b] # NoneVal
         /\ \E i \in DOMAIN steps[b] : steps[b][i] = "addOrder"
         /\ outcome[b] # "payment_link")
        => /\ delta[b] = 0
           /\ adminMsgs[<<"unsaved_order", payment_id(b)>>] > 0

\* C5: a webhook that reports payment.succeeded / succeeded while
\* Payment.find_one returns another status is answered 200 and its handler
\* ends at once: no order status, pending payment, stock quantity or
\* notification changes.
UnverifiedSuccessChangesNothing ==
    [][\A w \in Hooks :
         (/\ pc[w] = "idle"
          /\ deliveries'[w] = deliveries[w] + 1
          /\ hook'[w].branch = "success"
          /\ hook'[w].api \in Statuses \ {"succeeded"})
         => /\ pc'[w] = "idle"
            /\ hook'[w].resp = HTTP_OK
            /\ UNCHANGED <<stockVars, pendingVars, storeVars, msgVars>>]_vars

\* C5 case: such a webhook was answered 200 while the payment was pending
UnverifiedSuccessAnswered ==
    \E w \in Hooks :
        /\ pc[w] = "idle"
        /\ hook[w].branch = "success"
        /\ hook[w].api = "pending"
        /\ hook[w].resp = HTTP_OK
        /\ hook[w].id \in DOMAIN PENDING_PAYMENTS

\* C6: a cancellation webhook for a payment id with a pending amulet order
\* raises the stock by exactly 1 (before the pending payment is removed and
\* the buyer is told).
CancelRestoresOneUnit ==
    \A w \in Hooks :
        (pc[w] = "notify_canceled" /\ TracksStock(hook[w].product))
        => delta[w] = 1

\* C7: a cancellation webhook for a pending order of a product that does not
\* track stock (a certificate) leaves the stock quantity unchanged.
CertificateCancelKeepsStock ==
    \A w \in Hooks :
        (/\ hook[w].branch = "cancel"
         /\ hook[w].product \in Products
         /\ ~TracksStock(hook[w].product))
        => delta[w] = 0

FailedPaymentCommitsNothing ==
    \A b \in Buyers :
        payment[b] = "failed" =>
            /\ pc[b] = "END"
            /\ outcome[b] = "payment_error"
            /\ steps[b] = <<"createPayment">>
            /\ payment_id(b) \notin DOMAIN PENDING_PAYMENTS \cup DOMAIN pendingFile
            /\ payment_id(b) \notin DOMAIN sheetOrders \cup DOMAIN ORDERS_DATA
            /\ delta[b] = 0
            /\ seen[b] = NoneVal

\* C9 case: the payment of an amulet order failed while a unit was in stock
\* and another buyer's order was pending
PaymentFailedWithStock ==
    \E b \in Buyers :
        /\ payment[b] = "failed"
        /\ product_id[b] = "amulet"
        /\ Quantity > 0
        /\ PENDING_PAYMENTS # EmptyDict

DecreaseNoneOnlyWhenEmpty ==
    [][\A b \in Buyers :
         /\ (pc[b] = "dec_read" /\ pc'[b] # "dec_read") =>
               /\ pc'[b] = "dec_write" <=> Quantity > 0
               /\ UNCHANGED stockVars
         /\ (pc[b] = "dec_write" /\ pc'[b] # "dec_write") =>
               /\ Quantity' = Quantity - 1
               /\ pc'[b] = "add_order"]_vars

\* C12: when the durable write of increase_stock_safe fails, the locally
\* cached quantity is still increased by the count.
IncreaseUpdatesCacheOnFailedWrite ==
    [][\A t \in Tasks :
         (/\ pc[t] = "inc_write"
          /\ pc'[t] # "inc_write"
          /\ SHEETS_AVAILABLE
          /\ ledger'.inc = ledger.inc)
         => \/ STOCK_DATA' = STOCK_DATA + 1
            \/ STOCK_DATA' = current[t] + 1]_vars

\* C13: get_stock returns the quantity last written when the backend can be
\* read and the locally cached quantity when it cannot; start_order_flow
\* offers the waitlist exactly when the returned stock is <= 0.
GetStockFallsBackToCache ==
    [][\A b \in Buyers :
         (pc[b] = "get_read" /\ pc'[b] # "get_read") =>
            LET waitlist == pc'[b] = "ASKING_PHONE_WAITLIST" IN
            \/ waitlist <=> Quantity <= 0
            \/ SHEETS_AVAILABLE /\ (waitlist <=> STOCK_DATA <= 0)]_vars

\* C17: with the durable backend unavailable, add_order_to_sheets_with_retry
\* stores the order in ORDERS_DATA and confirm_order ends with the payment
\* link presented.
LocalFallbackCompletesCheckout ==
    \A b \in Buyers :
        (/\ ~SHEETS_AVAILABLE
         /\ pc[b] = "END"
         /\ \E i \in DOMAIN steps[b] : steps[b][i] = "addOrder")
        => /\ outcome[b] = "payment_link"
           /\ payment_id(b) \in DOMAIN ORDERS_DATA

\* C18: a verified success webhook for a payment id with no pending payment
\* is answered 200 and its handler ends at once: no order status, pending
\* payment, stock quantity or notification changes.
UnknownPaymentIsNoOp ==
    [][\A w \in Hooks :
         (/\ pc[w] = "idle"
          /\ deliveries'[w] = deliveries[w] + 1
          /\ hook'[w].branch = "success"
          /\ hook'[w].api = "succeeded"
          /\ hook'[w].id \notin DOMAIN PENDING_PAYMENTS)
         => /\ pc'[w] = "idle"
            /\ hook'[w].resp = HTTP_OK
            /\ UNCHANGED <<stockVars, pendingVars, storeVars, msgVars>>]_vars

\* C18 case: a verified success webhook arrived for a payment whose pending
\* payment had already been removed by an earlier paid webhook
PaidWebhookRepeated ==
    \E w \in Hooks :
        /\ pc[w] = "idle"
        /\ hook[w].branch = "success"
        /\ hook[w].api = "succeeded"
        /\ hook[w].resp = HTTP_OK
        /\ deliveries[w] > 0
        /\ hook[w].id \notin DOMAIN PENDING_PAYMENTS
        /\ adminMsgs[<<"paid", hook[w].id>>] = 1

\* C19: when the update of the order status to paid fails in
\* process_successful_payment, the operator gets the critical alert, the
\* pending payment is kept, the buyer gets no confirmation and the webhook is
\* answered 500; an order that is not in the store always fails this way.
FailedPaidUpdateKeepsPending ==
    [][\A w \in Hooks :
         (pc[w] = "update_paid" /\ pc'[w] # "update_paid") =>
            LET p == hook[w].id IN
            /\ ~update_order_status_with_retry(p, TRUE) => pc'[w] = "idle"
            /\ pc'[w] = "idle" =>
                 /\ adminMsgs' = Bump(adminMsgs, "status_not_updated", p)
                 /\ UNCHANGED <<pendingVars, userMsgs, storeVars>>
                 /\ hook'[w].resp = HTTP_ERROR]_vars

\* C19 case: a paid update failed for an order that is in the sheet
PaidUpdateFailedForSavedOrder ==
    \E w \in Hooks :
        /\ pc[w] = "idle"
        /\ hook[w].branch = "success"
        /\ hook[w].resp = HTTP_ERROR
        /\ hook[w].api = "succeeded"
        /\ adminMsgs[<<"status_not_updated", hook[w].id>>] = 1
        /\ hook[w].id \in DOMAIN sheetOrders
        /\ hook[w].id \in DOMAIN PENDING_PAYMENTS

\* C14: every retry wrapper makes at most MAX_RETRIES passes, a successful
\* pass is the last one and is returned as success, and a running wrapper
\* always comes to a result.
RetryBoundedAndTerminates ==
    /\ [](/\ Len(retry.results) <= MAX_RETRIES
          /\ \A i \in DOMAIN retry.results :
                retry.results[i] = "True" =>
                    i = Len(retry.results) /\ retry.result = "True")
    /\ (retry.result = "running") ~> (retry.result # "running")

\* C14 case: a wrapper succeeded at its last allowed pass after two failed
\* ones
RetrySucceededAtThirdPass ==
    /\ retry.wrapper = "update_status"
    /\ retry.results = <<"False", "False", "True">>
    /\ retry.result = "True"
    /\ sheetOrders[retry.key] = retry.status

\* C15: a retry wrapper whose MAX_RETRIES passes all failed has sent the
\* admin alert when it returns failure.
RetryExhaustedAlerts ==
    (retry.result = "False" /\ Len(retry.results) = MAX_RETRIES) => retry.alerts > 0

\* C16: no retry wrapper ends by raising: its result is True or False.
RetryNeverRaises ==
    retry.result \in {"none", "running", "True", "False"}

\* C20: an invalid phone, name or address leaves the conversation in the same
\* state and the stored answers unchanged, at every message.
InvalidAnswerChangesNothing ==
    [][(\/ /\ conversation = "ASKING_PHONE"
           /\ reply' \in {"phone_error", "fio_prompt"}
           /\ ~validate_phone(text')
        \/ /\ conversation = "ASKING_FIO"
           /\ reply' \in {"fio_error", "address_prompt", "certificate_reviews"}
           /\ ~validate_fio(text')
        \/ /\ conversation = "ASKING_ADDRESS"
           /\ reply' \in {"address_length_error", "address_country_error", "reviews"}
           /\ ~(validate_address(text') /\ is_russian_address(text')))
       => /\ conversation' = conversation
          /\ user_data' = user_data]_vars

\* C20 case: an address outside Russia was rejected with the phone and the
\* name already stored
ForeignAddressRejected ==
    /\ conversation = "ASKING_ADDRESS"
    /\ reply = "address_country_error"
    /\ validate_address(text)
    /\ ~is_russian_address(text)
    /\ user_data.phone # Unset
    /\ user_data.fio # Unset
    /\ user_data.address = Unset

\* some keyword of the list occurs in the text, whatever the letter case
HasKeyword(address) ==
    LET address_lower == lower(strip(address)) IN
    \E keyword \in load_russian_keywords :
        \E i \in 1..Len(address_lower) :
            /\ i + Len(keyword) - 1 <= Len(address_lower)
            /\ \A j \in 1..Len(keyword) : address_lower[i + j - 1] = keyword[j]

\* C21: ask_address rejects every address in which no keyword of the list
\* occurs, whatever its length, and stays in ASKING_ADDRESS; the Moscow
\* address of the scenario is accepted and stored, the Springfield one is not.
AddressWithoutKeywordRejected ==
    [][(/\ conversation = "ASKING_ADDRESS"
        /\ reply' \in {"address_length_error", "address_country_error", "reviews"})
       => /\ ~HasKeyword(text')
             => /\ conversation' = "ASKING_ADDRESS"
                /\ user_data' = user_data
                /\ reply' # "reviews"
          /\ text' = MoscowAddress
             => /\ conversation' = "SHOWING_REVIEWS"
                /\ user_data'.address = MoscowAddress
          /\ text' = SpringfieldAddress
             => /\ conversation' = "ASKING_ADDRESS"
                /\ reply' = "address_country_error"]_vars

\* C21 case: the Springfield address, long enough to pass the length check,
\* was refused by the country gate
SpringfieldRejected ==
    /\ conversation = "ASKING_ADDRESS"
    /\ text = SpringfieldAddress
    /\ validate_address(text)
    /\ reply = "address_country_error"
    /\ user_data.address = Unset

\* the answers a session holds
Answers(data) == <<data.phone, data.fio, data.address, data.gift_name, data.email>>

\* C22: user_data is cleared at every flow start, when confirm_order
\* completes and on cancel_order, so the order confirm_order reads in a
\* certificate flow carries the name given in that flow.
SessionClearedBetweenFlows ==
    [][/\ (conversation = "none" /\ conversation' # "none")
          => Answers(user_data') = Answers(NoData)
       /\ (conversation = "ASKING_CONFIRMATION" /\ conversation' = "none")
          => user_data' = NoData
       /\ (order_read' # order_read /\ user_data.flow_type # "none")
          => order_read'.fio = user_data.gift_name]_vars

\* C23: cancel_order clears the session and leaves the stock, the order store
\* and PENDING_PAYMENTS (with its fallback file) as they were.
CancelClearsSessionOnly ==
    [][(/\ pc[FormChat] = "ASKING_CONFIRMATION"
        /\ pc'[FormChat] = "END"
        /\ reply' = "order_canceled")
       => /\ user_data' = NoData
          /\ UNCHANGED <<stockVars, storeVars, pendingVars>>]_vars

\* cancel_order has run on a session that held the buyer's answers
OrderCanceledAfterAnswers ==
    /\ reply = "order_canceled"
    /\ outcome[FormChat] = "canceled"
    /\ pc[FormChat] = "END"
    /\ text # <<>>
    /\ user_data = NoData

\* the waitlist, sheet or local, holds the phone with the buyer's id
OnWaitlist(phone, user) ==
    \/ \E i \in DOMAIN sheetWaitlist : sheetWaitlist[i] = <<phone, user>>
    \/ phone \in DOMAIN WAITLIST_DATA /\ WAITLIST_DATA[phone] = user

\* C24: start_order_flow for the amulet with no stock enters the waitlist
\* branch instead of ASKING_PHONE; the waitlist branch creates no payment,
\* PendingOrder or order and changes no stock, and the buyer it thanks is on
\* the waitlist with phone and id.
WaitlistBranchOnlyRecordsPhone ==
    [][/\ (/\ conversation = "none"
           /\ reply' \in {"phone_prompt", "waitlist_offer"}
           /\ Quantity <= 0)
          => conversation' = "ASKING_PHONE_WAITLIST"
       /\ conversation = "ASKING_PHONE_WAITLIST"
          => UNCHANGED <<stockVars, pendingVars, storeVars, payment>>
       /\ (conversation = "ASKING_PHONE_WAITLIST" /\ reply' = "waitlist_thanks")
          => OnWaitlist(strip(text), FormChat)']_vars

\* the amulet was sold out, and the buyer's phone is on the waitlist
SoldOutBuyerOnWaitlist ==
    /\ Quantity = 0
    /\ reply = "waitlist_thanks"
    /\ conversation = "none"
    /\ OnWaitlist(SessionPhone, FormChat)
    /\ PENDING_PAYMENTS = EmptyDict
    /\ payment[FormChat] = "none"

\* C25: a checkout that finds the stock empty at confirmation is routed to
\* the waitlist branch: when confirm_order has returned, the conversation is
\* in the waitlist state.
OutOfStockRoutedToWaitlist ==
    [][(/\ conversation = "ASKING_CONFIRMATION"
        /\ pc[FormChat] = "END"
        /\ outcome[FormChat] = "out_of_stock"
        /\ conversation' # conversation
        /\ reply' = reply)
       => conversation' = "ASKING_PHONE_WAITLIST"]_vars

PaidConfirmationByCategory ==
    [][\A w \in Hooks :
          (pc[w] = "notify_paid" /\ pc'[w] # "notify_paid") =>
             LET prod == hook[w].product
                 sent(kind) == userMsgs'[<<kind, hook[w].id>>]
                                  - userMsgs[<<kind, hook[w].id>>]
             IN
             /\ prod = "amulet" =>
                    /\ sent("amulet_details") = 1
                    /\ sent("certificate_thanks") = 0
                    /\ sent("special_thanks") = 0
             /\ prod \in {"cert_digital", "cert_box"} =>
                    /\ sent("certificate_thanks") = 1
                    /\ sent("special_thanks") = 0
                    /\ sent("amulet_details") = 0
             /\ prod \in {"cert_special_digital", "cert_special_box"} =>
                    /\ sent("special_thanks") = 1
                    /\ sent("certificate_thanks") = 0
                    /\ sent("amulet_details") = 0]_vars

\* a paid certificate of the accessibility programme was confirmed with its
\* own thanks
SpecialCertificateThanked ==
    \E p \in PaymentIds :
        /\ userMsgs[<<"special_thanks", p>>] = 1
        /\ userMsgs[<<"amulet_details", p>>] = 0
        /\ userMsgs[<<"certificate_thanks", p>>] = 0
        /\ adminMsgs[<<"paid", p>>] = 1

\* C28: no interleaving of checkouts, operator commands and webhook handlers
\* deadlocks on the ledger: every task that requests stock_lock comes to
\* hold it and every holder releases it, also when a read or write of the
\* sheet fails inside the critical section.
LockAlwaysGrantedAndReleased ==
    \A t \in LockTasks :
        /\ (pc[t] \in AcquirePcs) ~> (stock_lock = t)
        /\ (stock_lock = t) ~> (stock_lock # t)

\* a buyer, the webhook handler and the operator want the lock at once
ThreeTasksAtTheLock ==
    \E b \in LockBuyers, w \in CheckoutHooks, a \in Admins :
        /\ stock_lock = b
        /\ pc[b] = "dec_write"
        /\ pc[w] = "inc_acquire"
        /\ pc[a] = "set_acquire"

\* C29: whenever a checkout has ended with the stock decremented, or with a
\* payment created and still pending, and the order store holds no record of
\* the order, a critical alert about it has been sent to the operator.
CommitmentWithoutOrderAlerted ==
    \A b \in Buyers :
        (/\ pc[b] = "END"
         /\ \/ delta[b] < 0
            \/ payment[b] = "created" /\ payment_id(b) \in DOMAIN PENDING_PAYMENTS
         /\ payment_id(b) \notin DOMAIN sheetOrders \cup DOMAIN ORDERS_DATA)
        => \/ adminMsgs[<<"unsaved_order", payment_id(b)>>] > 0
           \/ adminMsgs[<<"unsaved_retry", payment_id(b)>>] > 0

\* C30: an order that was pending and whose payment the gateway reports as
\* succeeded is marked paid and removed from PENDING_PAYMENTS, whatever the
\* order of the success, cancel and duplicate webhooks for it: once the
\* handler has answered 200 to the verified success webhook, after which the
\* provider sends it no more, the order in the store is paid.
SucceededPaymentMarkedPaid ==
    [][\A w \in Hooks :
          LET p == hook'[w].id
              orders == IF SHEETS_AVAILABLE THEN sheetOrders ELSE ORDERS_DATA
          IN
          (/\ hook'[w] # hook[w]
           /\ pc'[w] = "idle"
           /\ hook'[w].branch = "success"
           /\ hook'[w].api = "succeeded"
           /\ hook'[w].resp = HTTP_OK
           /\ p \in DOMAIN orders
           /\ \E i \in DOMAIN steps[buyer_of(p)] : steps[buyer_of(p)][i] = "pending"
           /\ outcome[buyer_of(p)] # "out_of_stock")
          => /\ orders'[p] = STATUS_PAID
             /\ p \notin DOMAIN PENDING_PAYMENTS']_vars


\* rows of the sheet whose id cell reads 'amulet'
AmuletRows(all_values) ==
    {r \in DOMAIN all_values :
        all_values[r] # <<>> /\ strip(all_values[r][1]) = AmuletId}

\* C31: when the stock sheet has an 'amulet' row, set_stock(q) writes q into
\* column 4 of that row and returns true, and a following get_stock returns
\* q; when there is no 'amulet' row, get_stock returns 0 and set_stock
\* returns false and writes no cell.
SetStockThenGetStock ==
    [][/\ (returned'.op = "set_stock" /\ AmuletRows(worksheet) # {}) =>
             /\ returned'.ok
             /\ \E r \in AmuletRows(worksheet) :
                    /\ Len(worksheet[r]) >= 4
                    /\ worksheet' = [worksheet EXCEPT ![r][4] = str(returned'.quantity)]
       /\ (returned.op = "set_stock" /\ returned.ok /\ returned'.op = "get_stock") =>
             returned'.stock = returned.quantity
       /\ (returned'.op = "get_stock" /\ AmuletRows(worksheet) = {}) =>
             returned'.stock = 0
       /\ (returned'.op = "set_stock" /\ AmuletRows(worksheet) = {}) =>
             ~returned'.ok /\ worksheet' = worksheet]_vars

\* C32: each call add_order_to_sheets_with_retry makes to sheets.add_order is
\* one the handler accepts and carries the order's payment id, the buyer's
\* user id and the status 'waiting for payment', so that the stored record
\* matches the PendingOrder of that payment id.
AddOrderCallMatchesPending ==
    [][\A b \in Buyers :
          (/\ SHEETS_AVAILABLE
           /\ pc[b] = "add_order"
           /\ <<pc[b], attempt[b]>>' # <<pc[b], attempt[b]>>
           /\ payment_id(b) \in DOMAIN PENDING_PAYMENTS) =>
              LET call == AddOrderCall(b)
                  order == PENDING_PAYMENTS[payment_id(b)] IN
              /\ DOMAIN call \subseteq AddOrderParameters
              /\ call.payment_id = payment_id(b)
              /\ call.status = STATUS_WAITING
              /\ call.user_id = order.user_id]_vars

\* the address choose_cert_type stores for a certificate sent by email
ElectronicDelivery == <<"electronic">>

\* C33: whenever the conversation is at ASKING_CONFIRMATION every answer held
\* in the session passed its gate: the phone the phone pattern, the names the
\* full-name rule, the address the address rule with a locality keyword or
\* the electronic-delivery sentinel, and in a gift flow the email the email
\* pattern.
ConfirmationHoldsValidAnswers ==
    conversation = "ASKING_CONFIRMATION" =>
        /\ validate_phone(user_data.phone)
        /\ user_data.fio # Unset \/ user_data.gift_name # Unset
        /\ user_data.fio # Unset => validate_fio(user_data.fio)
        /\ user_data.gift_name # Unset => validate_fio(user_data.gift_name)
        /\ \/ user_data.address = ElectronicDelivery
           \/ validate_address(user_data.address) /\ is_russian_address(user_data.address)
        /\ user_data.product_id # "amulet" => email_regex(user_data.email)

\* the entries on the waitlist: phone and user id
WaitlistEntries ==
    {sheetWaitlist[i] : i \in DOMAIN sheetWaitlist}
        \cup {<<phone, WAITLIST_DATA[phone]>> : phone \in DOMAIN WAITLIST_DATA}
WaitlistEntriesAfter ==
    {sheetWaitlist'[i] : i \in DOMAIN sheetWaitlist'}
        \cup {<<phone, WAITLIST_DATA'[phone]>> : phone \in DOMAIN WAITLIST_DATA'}

\* C34: cmd_notify_waitlist has attempted a notification for every waitlist
\* entry it removes, entries added while the broadcast runs included, and a
\* failed send does not stop the remaining sends: when the loop is left every
\* entry read at its start has been attempted.
BroadcastAttemptsEveryRemovedEntry ==
    [][/\ (broadcast.at \in {"clearing", "notifying"} /\ broadcast' # broadcast) =>
             \A e \in WaitlistEntries \ WaitlistEntriesAfter : e \in broadcast.attempted
       /\ (broadcast.at = "sending" /\ broadcast'.at \in {"clearing", "notifying"}) =>
             \A phone \in DOMAIN broadcast.waitlist :
                <<phone, broadcast.waitlist[phone]>> \in broadcast.attempted]_vars

\* what a dictionary holds under a key
Stored(d, k) == IF k \in DOMAIN d THEN <<d[k]>> ELSE <<>>

\* C35: a step of a webhook handler that is handling payment id A leaves the
\* PendingOrder (in memory and on file), the stored order status and the
\* notifications of every other payment id as they were, whatever the other
\* handler is doing.
WebhookTouchesOnlyItsPayment ==
    [][\A w \in Hooks :
          (hook'[w] # hook[w] \/ pc'[w] # pc[w]) =>
              LET A == IF hook'[w].id # "none" THEN hook'[w].id ELSE hook[w].id IN
              \A B \in PaymentIds \ {A} :
                 /\ Stored(PENDING_PAYMENTS', B) = Stored(PENDING_PAYMENTS, B)
                 /\ Stored(pendingFile', B) = Stored(pendingFile, B)
                 /\ Stored(sheetOrders', B) = Stored(sheetOrders, B)
                 /\ Stored(ORDERS_DATA', B) = Stored(ORDERS_DATA, B)
                 /\ \A kind \in AdminKinds : adminMsgs'[<<kind, B>>] = adminMsgs[<<kind, B>>]
                 /\ \A kind \in UserKinds : userMsgs'[<<kind, B>>] = userMsgs[<<kind, B>>]]_vars

\* one handler has finalized p1 as paid while the other is in the middle of
\* p2, whose PendingOrder is still there
HandlersOnTwoOrders ==
    /\ hook["w1"].id = "p1"
    /\ hook["w1"].resp = HTTP_OK
    /\ adminMsgs[<<"paid", "p1">>] = 1
    /\ "p1" \notin DOMAIN PENDING_PAYMENTS
    /\ hook["w2"].id = "p2"
    /\ pc["w2"] = "notify_paid"
    /\ "p2" \in DOMAIN PENDING_PAYMENTS
    /\ "p2" \in DOMAIN pendingFile

\* C36: whenever confirm_order has ended without presenting the payment link
\* (payment creation failed, out of stock, the order could not be saved, or
\* an unexpected exception), PENDING_PAYMENTS holds no entry for the payment
\* id of that attempt.
NoLinkLeavesNoPending ==
    \A b \in Buyers :
        (/\ pc[b] = "END"
         /\ outcome[b] \in {"payment_error", "out_of_stock", "save_failed", "order_error"}) =>
            payment_id(b) \notin DOMAIN PENDING_PAYMENTS

\* C37: for the order of a checkout, the stock increments applied for it by
\* the checkout's compensation and by webhook cancellation together never
\* exceed the successful decrements made for it, so the quantity never
\* exceeds the initial one.  (One buyer: every decrement and increment of
\* the ledger belongs to that buyer's payment id.)
IncrementsWithinDecrements ==
    /\ ledger.inc <= ledger.dec
    /\ ledger.dec <= 1
    /\ Quantity <= ledger.initial

\* C38: when two webhook deliveries for the same payment id are handled
\* concurrently, the order is fulfilled or cancelled at most once: buyer and
\* operator get each notification once, the handlers together add at most
\* one unit to the stock, and no handler that found the order ends with the
\* answer 500 after its status update went through.
SameIdDeliveriesHandledOnce ==
    \A p \in PaymentIds :
        /\ userMsgs[<<"canceled", p>>] <= 1
        /\ adminMsgs[<<"canceled", p>>] <= 1
        /\ adminMsgs[<<"paid", p>>] <= 1
        /\ userMsgs[<<"amulet_details", p>>] + userMsgs[<<"certificate_thanks", p>>]
             + userMsgs[<<"special_thanks", p>>] <= 1
        /\ (hook["w1"].id = p /\ hook["w2"].id = p) => delta["w1"] + delta["w2"] <= 1
        /\ \A w \in Hooks :
               (hook[w].id = p /\ hook[w].branch = "cancel") => hook[w].resp # HTTP_ERROR

\* C39: an order never ends up both paid and canceled: the buyer who got the
\* confirmation of the payment never gets the cancel message for the same
\* payment id (nor the operator both notifications), the stored status of an
\* order confirmed as paid is never "canceled", and a delivery that is
\* finalizing the order as paid never runs beside one that returns its stock.
NeverPaidAndCanceled ==
    \A p \in PaymentIds :
        LET thanked == userMsgs[<<"amulet_details", p>>] + userMsgs[<<"certificate_thanks", p>>]
                         + userMsgs[<<"special_thanks", p>>] IN
        /\ ~(thanked > 0 /\ userMsgs[<<"canceled", p>>] > 0)
        /\ ~(adminMsgs[<<"paid", p>>] > 0 /\ adminMsgs[<<"canceled", p>>] > 0)
        /\ (thanked > 0 /\ p \in DOMAIN sheetOrders) => sheetOrders[p] # STATUS_CANCELED
        /\ \A w, v \in Hooks :
               (/\ pc[w] \in {"update_paid", "notify_paid"} /\ hook[w].id = p
                /\ hook[v].id = p /\ hook[v].branch = "cancel") => delta[v] = 0

\* C40: when Payment.find_one raises while a reported success is handled,
\* the webhook answers 500 at once and changes nothing: no order status,
\* pending payment, stock quantity or notification.
VerificationErrorChangesNothing ==
    [][\A w \in Hooks :
         (/\ pc[w] = "idle"
          /\ deliveries'[w] = deliveries[w] + 1
          /\ hook'[w].branch = "success"
          /\ hook'[w].api = "error")
         => /\ pc'[w] = "idle"
            /\ hook'[w].resp = HTTP_ERROR
            /\ UNCHANGED <<stockVars, pendingVars, storeVars, msgVars, stock_lock>>]_vars

\* C40 case: such a webhook was answered 500 while the order was pending
VerificationErrorAnswered ==
    \E w \in Hooks :
        /\ pc[w] = "idle"
        /\ hook[w].branch = "success"
        /\ hook[w].api = "error"
        /\ hook[w].resp = HTTP_ERROR
        /\ hook[w].id \in DOMAIN PENDING_PAYMENTS

====
